---- MODULE Spec2Model ----
(***************************************************************************)
(* A model of the Atlas registry service (src/registry_service.py): the    *)
(* versioned file-instance store with its audit trail, the sign-off        *)
(* handler, the environment clone, and the derived governance status.      *)
(*                                                                         *)
(* Every public handler of the service is a pure operator from the         *)
(* database (and its inputs) to a result [ok, msg, db]; an action applies  *)
(* one handler to the current state.  Identifiers are integers: the        *)
(* service stores file ids as TEXT in gov_audit_trail and gov_file_lineage *)
(* (str(id)) and compares them against INTEGER keys, which SQLite's        *)
(* column affinity turns into an integer comparison.                       *)
(***************************************************************************)
EXTENDS Integers, Sequences, FiniteSets, TLC

\* ------------------------------------------------------------------ bounds
\* rows an instance table may hold before the model stops inserting
MaxRows == 4
\* audit entries the trail may hold before the model stops writing
MaxAudit == 4
\* audit entries the trail may hold once an environment is cloned
MaxCloneAudit == 12
\* the audit entries the administration pages may write before a clone
MaxAdminAudit == 2
\* concurrent callers of the upload
NumProcs == 2
\* milestones a plan may hold
MaxTasks == 3

\* ------------------------------------------------------ static configuration
ALL_FOLDERS == <<"Data Inputs", "Actuarial Models", "Results & Validation", "Reports & Insights">>

STAGE_TO_TABLE_MAP ==
  [s \in {"Data Inputs", "Actuarial Models", "Results & Validation", "Reports & Insights"} |->
     CASE s = "Data Inputs"          -> "inst_data_input_files"
       [] s = "Actuarial Models"     -> "inst_actuarial_model_files"
       [] s = "Results & Validation" -> "inst_result_files"
       [] s = "Reports & Insights"   -> "inst_report_files"]

\* the four instance tables, in the order TABLE_ID_MAP lists them
InstTables == <<"inst_data_input_files", "inst_actuarial_model_files",
                "inst_result_files", "inst_report_files">>

Tables == {InstTables[i] : i \in 1..Len(InstTables)}

\* The blueprint catalog (bp_file_templates).  Role lists are the result of
\* split(','); <<>> is a NULL or empty column.  A size limit of 0 is a NULL
\* (or zero) limit, which the service treats as "no limit".
bp_file_templates ==
  [t \in {"tA", "tB", "tM"} |->
     CASE t = "tA" -> [stage |-> "Data Inputs", signoff_workflow |-> "Doer + Reviewer",
                       doer_roles |-> <<"analyst">>, reviewer_roles |-> <<"manager">>,
                       expected_extension |-> ".csv",
                       min_file_size_kb |-> 1, max_file_size_kb |-> 10,
                       expected_columns |-> {"c1"}]
       [] t = "tB" -> [stage |-> "Results & Validation", signoff_workflow |-> "Doer Only",
                       doer_roles |-> <<"actuarial", "all">>, reviewer_roles |-> <<>>,
                       expected_extension |-> ".csv",
                       min_file_size_kb |-> 0, max_file_size_kb |-> 10,
                       expected_columns |-> {}]
       [] t = "tM" -> [stage |-> "Actuarial Models", signoff_workflow |-> "Doer Only",
                       doer_roles |-> <<"analyst">>, reviewer_roles |-> <<"manager">>,
                       expected_extension |-> ".csv",
                       min_file_size_kb |-> 0, max_file_size_kb |-> 0,
                       expected_columns |-> {}]]

\* ------------------------------------------------------------------- state
VARIABLES
  envs,      \* bp_environments: set of [env_id, env_name, source_env_id, current_status]
  inst,      \* the instance tables: table -> sequence of rows, row id = index
  audit,     \* gov_audit_trail: sequence of entries, audit_log_id = index
  lineage,   \* gov_file_lineage: sequence of links
  folders,   \* environment folders present under ENVIRONMENT_ROOT_PATH
  plan,      \* the planning tables: [milestones, dependencies, action_items],
             \* each a sequence of rows, a row's id = its index
  blueprints, \* bp_file_templates rows created at run time: template_id -> status
  schedule,  \* the planning page: the milestones it read and the plan it computed
  last,      \* the last call and what it returned: [op, ok, msg]
  pc,        \* per concurrent caller: the statement of the upload it is at
  call,      \* per concurrent caller: the upload's inputs and its new row id
  lock,      \* the caller holding the database's write lock, 0 when free
  journal    \* the rollback journal: the database as the open transaction found it

vars == <<envs, inst, audit, lineage, folders, plan, blueprints, schedule, last, pc,
          call, lock, journal>>

\* the database and file tree as one value, handed to the handlers
DB == [envs |-> envs, inst |-> inst, audit |-> audit, lineage |-> lineage,
       folders |-> folders, plan |-> plan, blueprints |-> blueprints]

\* ------------------------------------------------------------- small helpers
SeqToSet(s) == {s[i] : i \in 1..Len(s)}

RECURSIVE SelectIdx(_, _, _)
\* the indices i of s, ascending, with keep[i]
SelectIdx(n, keep, i) ==
  IF i > n THEN <<>>
  ELSE IF keep[i] THEN <<i>> \o SelectIdx(n, keep, i + 1)
       ELSE SelectIdx(n, keep, i + 1)

\* (bp[col] or 'admin').split(',')
RolesList(stored) == IF stored = <<>> THEN <<"admin">> ELSE stored

\* 'all' in roles_list or user_role in roles_list
RoleAllowed(roles_list, user_role) ==
  "all" \in SeqToSet(roles_list) \/ user_role \in SeqToSet(roles_list)

EnvExists(db, env_id) == \E e \in db.envs : e.env_id = env_id

get_environment_by_id(db, env_id) == CHOOSE e \in db.envs : e.env_id = env_id

BlueprintExists(template_id) == template_id \in DOMAIN bp_file_templates

get_file_blueprint_by_id(template_id) == bp_file_templates[template_id]

\* an audit writer that puts the new entry in the place of the oldest one
log_auditOverwrite(trail, user_id, action, target_table, target_id, comment, capacity) ==
  LET entry == [user_id |-> user_id, action |-> action, target_table |-> target_table,
                target_id |-> target_id, signoff_capacity |-> capacity,
                comment |-> comment]
  IN  IF trail = <<>> THEN <<entry>> ELSE [trail EXCEPT ![1] = entry]

\* INSERT INTO gov_audit_trail (...): one entry appended to the trail
log_audit(trail, user_id, action, target_table, target_id, comment, capacity) ==
  Append(trail, [user_id |-> user_id, action |-> action, target_table |-> target_table,
                 target_id |-> target_id, signoff_capacity |-> capacity,
                 comment |-> comment])

\* a transaction that commits what was written before the exception
EndTransactionNoRollback(pre, work, raised) == work

\* `with conn:` -- the transaction commits when its body ends normally and is
\* rolled back when an exception leaves it
EndTransaction(pre, work, raised) == IF raised THEN pre ELSE work

Result(ok, msg, db) == [ok |-> ok, msg |-> msg, db |-> db]

\* ------------------------------------------------------------ CreateVersion
\* a duplicate check that looks at the Active rows alone
HashExistsActiveOnly(db, table, file_hash, env_id) ==
  \E i \in 1..Len(db.inst[table]) :
     /\ db.inst[table][i].file_hash_sha256 = file_hash
     /\ db.inst[table][i].env_id = env_id
     /\ db.inst[table][i].current_status = "Active"

\* SELECT 1 FROM {table} WHERE file_hash_sha256 = ? AND env_id = ?
HashExists(db, table, file_hash, env_id) ==
  \E i \in 1..Len(db.inst[table]) :
     /\ db.inst[table][i].file_hash_sha256 = file_hash
     /\ db.inst[table][i].env_id = env_id

\* The schema check of the upload: every expected column is among the actual
\* ones.  The code sits after a `raise` inside the max-size branch.
SchemaMismatch(bp, f) == ~(bp.expected_columns \subseteq f.actual_columns)

\* UPDATE {table} SET current_status = 'Superseded'
\*  WHERE template_id = ? AND env_id = ? AND current_status = 'Active'
Supersede(rows, template_id, env_id) ==
  [i \in 1..Len(rows) |->
     IF /\ rows[i].template_id = template_id
        /\ rows[i].env_id = env_id
        /\ rows[i].current_status = "Active"
     THEN [rows[i] EXCEPT !.current_status = "Superseded"]
     ELSE rows[i]]

NewRow(template_id, env_id, file_hash, status, user_id) ==
  [template_id |-> template_id, env_id |-> env_id, file_hash_sha256 |-> file_hash,
   current_status |-> status, created_by |-> user_id]

\* the INSERT of the upload names no model_run_id, which
\* inst_actuarial_model_files declares NOT NULL: the statement raises
InsertRaises(table) == table = "inst_actuarial_model_files"

LineageRows(source_ids, child_table, child_id) ==
  [k \in 1..Len(source_ids) |->
     [parent_table |-> source_ids[k][1], parent_id |-> source_ids[k][2],
      child_table |-> child_table, child_id |-> child_id]]

\* The "dual-write" transaction of the upload.  fault = k > 0: the k-th
\* statement (1 UPDATE, 2 INSERT, 3 audit INSERT, 4 lineage INSERT / COMMIT)
\* raises sqlite3.Error; 0: none does.
UploadTransaction(db, a, table, fault) ==
  LET raisedAt == IF InsertRaises(table) /\ (fault = 0 \/ fault > 2) THEN 2 ELSE fault
      w1 == [db EXCEPT !.inst[table] = Supersede(db.inst[table], a.template_id, a.env_id)]
      w2 == [w1 EXCEPT !.inst[table] =
               Append(w1.inst[table],
                      NewRow(a.template_id, a.env_id, a.file_hash, "Active", a.user_id))]
      new_file_id_int == Len(w2.inst[table])
      w3 == [w2 EXCEPT !.audit =
               log_audit(w2.audit, a.user_id, "CREATE", table, new_file_id_int,
                         a.comment, "Doer")]
      w4 == [w3 EXCEPT !.lineage =
               w3.lineage \o LineageRows(a.source_ids, table, new_file_id_int)]
      work == CASE raisedAt = 1 -> db
                [] raisedAt = 2 -> w1
                [] raisedAt = 3 -> w2
                [] raisedAt = 4 -> w3
                [] OTHER -> w4
  IN  IF raisedAt # 0
      THEN Result(FALSE, "DatabaseError", EndTransaction(db, work, TRUE))
      ELSE Result(TRUE, "uploaded", EndTransaction(db, work, FALSE))

\* the checks of the upload that precede its transaction, in the order the
\* code makes them; "ok" when all pass
UploadChecks(db, a) ==
  IF ~EnvExists(db, a.env_id) THEN "EnvNotFound"
  ELSE IF ~BlueprintExists(a.template_id) THEN "BlueprintNotFound"
  ELSE
    LET bp == get_file_blueprint_by_id(a.template_id)
        table == STAGE_TO_TABLE_MAP[bp.stage]
    IN  IF ~RoleAllowed(RolesList(bp.doer_roles), a.user_role) THEN "PermissionError"
        ELSE IF a.file_ext # bp.expected_extension THEN "InvalidFileType"
        ELSE IF HashExists(db, table, a.file_hash, a.env_id) THEN "Duplicate"
        ELSE IF bp.min_file_size_kb # 0 /\ a.file_size_kb < bp.min_file_size_kb
          THEN "BelowMinSize"
        ELSE IF bp.max_file_size_kb # 0 /\ a.file_size_kb > bp.max_file_size_kb
          THEN "AboveMaxSize"
        ELSE "ok"

upload_new_file_instance(db, a, fault) ==
  LET checked == UploadChecks(db, a)
  IN  IF checked # "ok" THEN Result(FALSE, checked, db)
      ELSE UploadTransaction(db, a,
                             STAGE_TO_TABLE_MAP[get_file_blueprint_by_id(a.template_id).stage],
                             fault)

\* ------------------------------------------------------------------ SignOff
\* SELECT template_id FROM {target_table} WHERE {id_col} = ?
FileExists(db, target_table, target_id) ==
  target_table \in Tables /\ target_id \in 1..Len(db.inst[target_table])

\* a sign-off that authorizes every capacity against the doer roles
SignoffRolesDoerList(bp, capacity) == RolesList(bp.doer_roles)

\* the role list the sign-off authorizes against, by capacity
SignoffRoles(bp, capacity) ==
  CASE capacity = "Doer"     -> RolesList(bp.doer_roles)
    [] capacity = "Reviewer" -> RolesList(bp.reviewer_roles)
    [] OTHER                 -> <<"admin", "owner">>

\* new_status: 'Active' by default, 'Rejected' for REJECT, 'Active' for REVOKE
SignoffStatus(action) ==
  CASE action = "REJECT" -> "Rejected"
    [] action = "REVOKE" -> "Active"
    [] OTHER             -> "Active"

\* The "dual-write" transaction of the sign-off.  fault = k > 0: the k-th
\* statement (1 audit INSERT, 2 UPDATE / COMMIT) raises sqlite3.Error.
SignoffTransaction(db, a, fault) ==
  LET w1 == [db EXCEPT !.audit =
               log_audit(db.audit, a.user_id, a.action, a.target_table, a.target_id,
                         a.comment, a.capacity)]
      w2 == [w1 EXCEPT !.inst[a.target_table][a.target_id].current_status =
               SignoffStatus(a.action)]
      work == CASE fault = 1 -> db
                [] fault = 2 -> w1
                [] OTHER -> w2
  IN  IF fault \in {1, 2}
      THEN Result(FALSE, "DatabaseError", EndTransaction(db, work, TRUE))
      ELSE Result(TRUE, "logged", EndTransaction(db, work, FALSE))

log_user_signoff(db, a, fault) ==
  IF ~FileExists(db, a.target_table, a.target_id) THEN Result(FALSE, "FileNotFound", db)
  ELSE
    LET template_id == db.inst[a.target_table][a.target_id].template_id
    IN  IF ~BlueprintExists(template_id) THEN Result(FALSE, "BlueprintNotFound", db)
        ELSE IF ~RoleAllowed(SignoffRoles(get_file_blueprint_by_id(template_id), a.capacity),
                             a.user_role)
          THEN Result(FALSE, "PermissionError", db)
        ELSE SignoffTransaction(db, a, fault)

\* ------------------------------------------------------------- DeriveStatus
\* a sign-off test that leaves out the action
HasSignoffAnyAction(db, table, id, capacity) ==
  \E k \in 1..Len(db.audit) :
     /\ db.audit[k].target_table = table
     /\ db.audit[k].target_id = id
     /\ db.audit[k].signoff_capacity = capacity

\* EXISTS (SELECT 1 FROM gov_audit_trail a WHERE a.target_table = f.table_name
\*   AND a.target_id = f.file_id AND a.action = 'SIGN_OFF' AND a.signoff_capacity = ?)
HasSignoff(db, table, id, capacity) ==
  \E k \in 1..Len(db.audit) :
     /\ db.audit[k].target_table = table
     /\ db.audit[k].target_id = id
     /\ db.audit[k].action = "SIGN_OFF"
     /\ db.audit[k].signoff_capacity = capacity

\* a status that is fully approved on the Reviewer's sign-off alone
governance_statusReviewerAlone(db, table, id) ==
  LET f == db.inst[table][id]
      signoff_workflow == get_file_blueprint_by_id(f.template_id).signoff_workflow
      has_doer_signoff == HasSignoff(db, table, id, "Doer")
      has_reviewer_signoff == HasSignoff(db, table, id, "Reviewer")
  IN  CASE f.current_status = "Rejected" -> "Rejected"
        [] f.current_status = "Superseded" -> "Superseded"
        [] signoff_workflow = "Doer + Reviewer" ->
             (CASE has_reviewer_signoff -> "Fully Approved"
                [] has_doer_signoff -> "Pending Review"
                [] OTHER -> "Pending Doer")
        [] OTHER ->
             (CASE has_doer_signoff -> "Approved (Doer Only)"
                [] OTHER -> "Pending Doer")

\* the CASE expression that ends get_all_files_dataframe_for_env
governance_status(db, table, id) ==
  LET f == db.inst[table][id]
      signoff_workflow == get_file_blueprint_by_id(f.template_id).signoff_workflow
      has_doer_signoff == HasSignoff(db, table, id, "Doer")
      has_reviewer_signoff == HasSignoff(db, table, id, "Reviewer")
  IN  CASE f.current_status = "Rejected" -> "Rejected"
        [] f.current_status = "Superseded" -> "Superseded"
        [] signoff_workflow = "Doer + Reviewer" ->
             (CASE has_doer_signoff /\ has_reviewer_signoff -> "Fully Approved"
                [] has_doer_signoff -> "Pending Review"
                [] OTHER -> "Pending Doer")
        [] OTHER ->
             (CASE has_doer_signoff -> "Approved (Doer Only)"
                [] OTHER -> "Pending Doer")

\* -------------------------------------------------------------------- Clone
\* _clone_physical_folders raises when the source tree is missing or the
\* target tree exists; otherwise it creates the target tree
PhysicalCloneRaises(db, source_env_name, new_env_name) ==
  source_env_name \notin db.folders \/ new_env_name \in db.folders

\* an except branch that leaves the file tree as it finds it
CleanupFoldersNone(db, new_env_name) == db

\* the except branch of clone_environment: rmtree of the folder named
\* new_env_name when it exists
CleanupFolders(db, new_env_name) == [db EXCEPT !.folders = @ \ {new_env_name}]

\* a selection whose Latest Approved profile takes every Active or Rejected row
FilesToCloneUnapproved(db, table, source_env_id, versioning_logic) ==
  LET rows == db.inst[table]
      keep == [i \in 1..Len(rows) |->
                 /\ rows[i].env_id = source_env_id
                 /\ \/ versioning_logic = "Carbon Copy (Forensic)"
                    \/ rows[i].current_status \in {"Active", "Rejected"}]
  IN  SelectIdx(Len(rows), keep, 1)

\* a selection whose Full History profile takes the Superseded rows too
FilesToCloneWithSuperseded(db, table, source_env_id, versioning_logic) ==
  LET rows == db.inst[table]
      keep == [i \in 1..Len(rows) |->
                 /\ rows[i].env_id = source_env_id
                 /\ CASE versioning_logic = "Latest Approved" ->
                           /\ rows[i].current_status = "Active"
                           /\ \E k \in 1..Len(db.audit) :
                                /\ db.audit[k].target_table = table
                                /\ db.audit[k].target_id = i
                                /\ db.audit[k].action = "SIGN_OFF"
                                /\ db.audit[k].signoff_capacity \in {"Reviewer", "Business Owner"}
                      [] OTHER -> TRUE]
  IN  SelectIdx(Len(rows), keep, 1)

\* the ids of one table _get_files_to_clone selects, in rowid order
FilesToClone(db, table, source_env_id, versioning_logic) ==
  LET rows == db.inst[table]
      keep == [i \in 1..Len(rows) |->
                 /\ rows[i].env_id = source_env_id
                 /\ CASE versioning_logic = "Latest Approved" ->
                           /\ rows[i].current_status = "Active"
                           /\ \E k \in 1..Len(db.audit) :
                                /\ db.audit[k].target_table = table
                                /\ db.audit[k].target_id = i
                                /\ db.audit[k].action = "SIGN_OFF"
                                /\ db.audit[k].signoff_capacity \in {"Reviewer", "Business Owner"}
                      [] versioning_logic = "Full History (No Superseded)" ->
                           rows[i].current_status \in {"Active", "Rejected"}
                      [] versioning_logic = "Carbon Copy (Forensic)" -> TRUE
                      [] OTHER -> FALSE]
  IN  SelectIdx(Len(rows), keep, 1)

get_files_to_clone(db, source_env_id, versioning_logic) ==
  [t \in Tables |-> FilesToClone(db, t, source_env_id, versioning_logic)]

RECURSIVE CloneFilesKeepStatus(_, _, _, _, _, _, _)
\* a copy loop that leaves each copy the status of its original
CloneFilesKeepStatus(w, table, ids, k, new_env_id, user_id, source_env_id) ==
  IF k > Len(ids) THEN w
  ELSE
    LET old == w.db.inst[table][ids[k]]
        copy == [old EXCEPT !.env_id = new_env_id, !.created_by = user_id]
        new_file_id_int == Len(w.db.inst[table]) + 1
        db1 == [w.db EXCEPT !.inst[table] = Append(@, copy),
                            !.audit = log_audit(@, user_id, "CLONE_FILE", table,
                                                new_file_id_int, "cloned", "System")]
        w1 == [db |-> db1,
               id_map |-> [w.id_map EXCEPT ![table] = (ids[k] :> new_file_id_int) @@ @]]
    IN  CloneFilesKeepStatus(w1, table, ids, k + 1, new_env_id, user_id, source_env_id)

RECURSIVE CloneFiles(_, _, _, _, _, _, _)
\* the loop `for file in files` over one table: insert the copy, record the
\* new id in the table's id map, log CLONE_FILE.  w = [db, id_map].
CloneFiles(w, table, ids, k, new_env_id, user_id, source_env_id) ==
  IF k > Len(ids) THEN w
  ELSE
    LET old == w.db.inst[table][ids[k]]
        copy == [old EXCEPT !.env_id = new_env_id, !.created_by = user_id,
                            !.current_status = "Active"]
        new_file_id_int == Len(w.db.inst[table]) + 1
        db1 == [w.db EXCEPT !.inst[table] = Append(@, copy),
                            !.audit = log_audit(@, user_id, "CLONE_FILE", table,
                                                new_file_id_int, "cloned", "System")]
        w1 == [db |-> db1,
               id_map |-> [w.id_map EXCEPT ![table] = (ids[k] :> new_file_id_int) @@ @]]
    IN  CloneFiles(w1, table, ids, k + 1, new_env_id, user_id, source_env_id)

RECURSIVE CloneFolders(_, _, _, _, _, _, _)
\* the loop `for folder_name in folders_to_clone`
CloneFolders(w, file_ids_to_clone, folders_to_clone, j, new_env_id, user_id, source_env_id) ==
  IF j > Len(folders_to_clone) THEN w
  ELSE
    LET table == STAGE_TO_TABLE_MAP[folders_to_clone[j]]
        w1 == CloneFiles(w, table, file_ids_to_clone[table], 1, new_env_id, user_id,
                         source_env_id)
    IN  CloneFolders(w1, file_ids_to_clone, folders_to_clone, j + 1, new_env_id, user_id,
                     source_env_id)

\* {**a, **b}: the keys of both, b's value where both have the key
DictMerge(a, b) == b @@ a

EmptyMap == [x \in {} |-> 0]

\* all_new_parent_ids_map and all_new_child_ids_map: the per-table id maps
\* flattened into one dict keyed by the old id alone
AllNewParentIdsMap(id_map) ==
  DictMerge(DictMerge(DictMerge(id_map["inst_data_input_files"],
                                id_map["inst_actuarial_model_files"]),
                      id_map["inst_result_files"]),
            id_map["inst_report_files"])

AllNewChildIdsMap(id_map) ==
  DictMerge(DictMerge(id_map["inst_actuarial_model_files"], id_map["inst_result_files"]),
            id_map["inst_report_files"])

RECURSIVE CloneLineage(_, _, _, _, _)
\* the loop over the lineage rows whose parent_id and child_id are keys of the
\* flattened maps; `links` is the table as it stood before the loop
CloneLineage(out, links, k, parent_map, child_map) ==
  IF k > Len(links) THEN out
  ELSE
    LET link == links[k]
        selected == link.parent_id \in DOMAIN parent_map /\ link.child_id \in DOMAIN child_map
    IN  IF selected
        THEN CloneLineage(Append(out, [link EXCEPT !.parent_id = parent_map[link.parent_id],
                                                   !.child_id = child_map[link.child_id]]),
                          links, k + 1, parent_map, child_map)
        ELSE CloneLineage(out, links, k + 1, parent_map, child_map)

RECURSIVE ReplayAuditAsSystem(_, _, _, _, _)
\* a replay that records each copied entry in the System capacity
ReplayAuditAsSystem(out, rows, k, id_map, all_ids) ==
  IF k > Len(rows) THEN out
  ELSE
    LET row == rows[k]
        selected == /\ row.target_table \in Tables
                    /\ row.target_id \in all_ids
                    /\ row.target_id \in DOMAIN id_map[row.target_table]
    IN  IF selected
        THEN ReplayAuditAsSystem(
               Append(out, [row EXCEPT !.target_id = id_map[row.target_table][row.target_id],
                                       !.signoff_capacity = "System"]),
               rows, k + 1, id_map, all_ids)
        ELSE ReplayAuditAsSystem(out, rows, k + 1, id_map, all_ids)

RECURSIVE ReplayAudit(_, _, _, _, _)
\* the loop over the audit rows of instance tables whose target_id is a key of
\* the flattened map; a row is copied when its table's own map has the id
ReplayAudit(out, rows, k, id_map, all_ids) ==
  IF k > Len(rows) THEN out
  ELSE
    LET row == rows[k]
        selected == /\ row.target_table \in Tables
                    /\ row.target_id \in all_ids
                    /\ row.target_id \in DOMAIN id_map[row.target_table]
    IN  IF selected
        THEN ReplayAudit(Append(out, [row EXCEPT !.target_id =
                                        id_map[row.target_table][row.target_id]]),
                         rows, k + 1, id_map, all_ids)
        ELSE ReplayAudit(out, rows, k + 1, id_map, all_ids)

\* id_map_int_to_int as _clone_db_records has built it when the loop over the
\* folders ends: per table, old id -> new id
id_map_int_to_int(db, source_env_id, new_env_id, user_id, folders_to_clone, versioning_logic) ==
  CloneFolders([db |-> db, id_map |-> [t \in Tables |-> EmptyMap]],
               get_files_to_clone(db, source_env_id, versioning_logic), folders_to_clone, 1,
               new_env_id, user_id, source_env_id).id_map

clone_db_records(db, source_env_id, new_env_id, user_id, folders_to_clone, versioning_logic) ==
  LET file_ids_to_clone == get_files_to_clone(db, source_env_id, versioning_logic)
      w == CloneFolders([db |-> db, id_map |-> [t \in Tables |-> EmptyMap]],
                        file_ids_to_clone, folders_to_clone, 1, new_env_id, user_id,
                        source_env_id)
      parent_map == AllNewParentIdsMap(w.id_map)
      child_map == AllNewChildIdsMap(w.id_map)
      db2 == IF DOMAIN parent_map # {} /\ DOMAIN child_map # {}
             THEN [w.db EXCEPT !.lineage =
                     CloneLineage(@, w.db.lineage, 1, parent_map, child_map)]
             ELSE w.db
      all_ids == DOMAIN DictMerge(parent_map, child_map)
  IN  IF versioning_logic = "Carbon Copy (Forensic)" /\ all_ids # {}
      THEN [db2 EXCEPT !.audit = ReplayAudit(@, db2.audit, 1, w.id_map, all_ids)]
      ELSE db2

\* ----------------------------------------------------------------- Planning
\* a row of plan_project_milestones; due_date is <<>> when NULL, <<day>> else,
\* and duration_days <<>> when NULL, <<days>> else
MilestoneRow(env_id, title, duration_days, due_date, owner_user_id, status, user_id) ==
  [env_id |-> env_id, title |-> title, duration_days |-> duration_days,
   due_date |-> due_date, owner_user_id |-> owner_user_id, status |-> status,
   created_by |-> user_id]

\* the links (new_milestone_id, pred_id), one per entry of predecessor_ids
DependencyRows(new_milestone_id, predecessor_ids) ==
  [k \in 1..Len(predecessor_ids) |->
     [task_id |-> new_milestone_id, predecessor_task_id |-> predecessor_ids[k]]]

\* the INSERT of the links raises sqlite3.IntegrityError: a predecessor that is
\* no row of plan_project_milestones (FOREIGN KEY), or the same link twice
\* (UNIQUE(task_id, predecessor_task_id))
DependencyInsertRaises(db, new_milestone_id, predecessor_ids) ==
  \/ \E k \in 1..Len(predecessor_ids) :
       predecessor_ids[k] \notin 1..new_milestone_id
  \/ \E j, k \in 1..Len(predecessor_ids) : j < k /\ predecessor_ids[j] = predecessor_ids[k]

\* create_milestone: the circular dependency check is a `pass`; the
\* transaction inserts the milestone, its links and one audit entry
create_milestone(db, a, fault) ==
  LET new_milestone_id == Len(db.plan.milestones) + 1
      raised == \/ ~EnvExists(db, a.env_id)
                \/ DependencyInsertRaises(db, new_milestone_id, a.predecessor_ids)
                \/ fault
      work == [db EXCEPT
                 !.plan.milestones = Append(@, MilestoneRow(a.env_id, a.title, a.duration_days,
                                                            a.due_date, a.owner_user_id,
                                                            "Pending", a.user_id)),
                 !.plan.dependencies = @ \o DependencyRows(new_milestone_id, a.predecessor_ids),
                 !.audit = log_audit(@, a.user_id, "CREATE", "plan_project_milestones",
                                     new_milestone_id, "Created milestone", "User")]
  IN  IF raised THEN Result(FALSE, "DatabaseError", EndTransaction(db, work, TRUE))
      ELSE Result(TRUE, "Milestone created.", EndTransaction(db, work, FALSE))

\* update_milestone_status: the UPDATE (of no row when the id is unknown) and
\* one audit entry
update_milestone_status(db, a, fault) ==
  LET work == [db EXCEPT
                 !.plan.milestones = [k \in 1..Len(@) |->
                                        IF k = a.milestone_id
                                        THEN [@[k] EXCEPT !.status = a.status] ELSE @[k]],
                 !.audit = log_audit(@, a.user_id, "UPDATE_STATUS", "plan_project_milestones",
                                     a.milestone_id, "Set status", "User")]
  IN  IF fault THEN Result(FALSE, "DatabaseError", EndTransaction(db, work, TRUE))
      ELSE Result(TRUE, "Milestone updated.", EndTransaction(db, work, FALSE))

\* create_action_item: the INSERT and one audit entry
create_action_item(db, a, fault) ==
  LET new_id == Len(db.plan.action_items) + 1
      raised == ~EnvExists(db, a.env_id) \/ fault
      work == [db EXCEPT
                 !.plan.action_items = Append(@, [env_id |-> a.env_id, status |-> "Open",
                                                  created_by |-> a.user_id]),
                 !.audit = log_audit(@, a.user_id, "CREATE", "plan_action_items", new_id,
                                     "Created action", "User")]
  IN  IF raised THEN Result(FALSE, "DatabaseError", EndTransaction(db, work, TRUE))
      ELSE Result(TRUE, "Action item created.", EndTransaction(db, work, FALSE))

\* close_action_item: the UPDATE (of no row when the id is unknown) and one
\* audit entry
close_action_item(db, a, fault) ==
  LET work == [db EXCEPT
                 !.plan.action_items = [k \in 1..Len(@) |->
                                          IF k = a.action_id
                                          THEN [@[k] EXCEPT !.status = "Closed"] ELSE @[k]],
                 !.audit = log_audit(@, a.user_id, "CLOSE", "plan_action_items", a.action_id,
                                     "Marked action as closed", "User")]
  IN  IF fault THEN Result(FALSE, "DatabaseError", EndTransaction(db, work, TRUE))
      ELSE Result(TRUE, "Action item closed.", EndTransaction(db, work, FALSE))

RECURSIVE CloneMilestones(_, _, _, _, _)
\* the loop `for task_row in milestones`: insert the copy under the new
\* environment and the cloning user, record its id.  w = [db, id_map].
CloneMilestones(w, ids, k, new_env_id, user_id) ==
  IF k > Len(ids) THEN w
  ELSE
    LET task == w.db.plan.milestones[ids[k]]
        copy == [task EXCEPT !.env_id = new_env_id, !.created_by = user_id]
        new_milestone_id == Len(w.db.plan.milestones) + 1
        w1 == [db |-> [w.db EXCEPT !.plan.milestones = Append(@, copy)],
               id_map |-> (ids[k] :> new_milestone_id) @@ w.id_map]
    IN  CloneMilestones(w1, ids, k + 1, new_env_id, user_id)

RECURSIVE ClonePlanLinksAnyPredecessor(_, _, _, _)
\* a copy of the links that keeps a link whose predecessor was not copied,
\* pointing it at the original predecessor
ClonePlanLinksAnyPredecessor(links, milestones, k, w) ==
  IF k > Len(links) THEN <<>>
  ELSE
    LET link == links[k]
        selected == /\ link.task_id \in 1..Len(milestones)
                    /\ milestones[link.task_id].env_id = w.source_env_id
                    /\ link.task_id \in DOMAIN w.id_map
        rest == ClonePlanLinksAnyPredecessor(links, milestones, k + 1, w)
    IN  IF selected
        THEN <<[task_id |-> w.id_map[link.task_id],
                predecessor_task_id |->
                  IF link.predecessor_task_id \in DOMAIN w.id_map
                  THEN w.id_map[link.predecessor_task_id]
                  ELSE link.predecessor_task_id]>> \o rest
        ELSE rest

RECURSIVE ClonePlanLinks(_, _, _, _)
\* the loop `for link_row in dependencies` over the links whose task belongs
\* to the source environment: a link is copied when both ends are in id_map
ClonePlanLinks(links, milestones, k, w) ==
  IF k > Len(links) THEN <<>>
  ELSE
    LET link == links[k]
        selected == /\ link.task_id \in 1..Len(milestones)
                    /\ milestones[link.task_id].env_id = w.source_env_id
                    /\ link.task_id \in DOMAIN w.id_map
                    /\ link.predecessor_task_id \in DOMAIN w.id_map
        rest == ClonePlanLinks(links, milestones, k + 1, w)
    IN  IF selected
        THEN <<[task_id |-> w.id_map[link.task_id],
                predecessor_task_id |-> w.id_map[link.predecessor_task_id]]>> \o rest
        ELSE rest

\* id_map as _clone_project_plan has built it when the loop over the
\* milestones ends: old milestone_id -> new milestone_id
plan_id_map(db, source_env_id, new_env_id, user_id) ==
  LET rows == db.plan.milestones
      keep == [i \in 1..Len(rows) |-> rows[i].env_id = source_env_id]
  IN  CloneMilestones([db |-> db, id_map |-> EmptyMap], SelectIdx(Len(rows), keep, 1), 1,
                      new_env_id, user_id).id_map

\* _clone_project_plan, inside the clone's transaction
clone_project_plan(db, source_env_id, new_env_id, user_id) ==
  LET rows == db.plan.milestones
      keep == [i \in 1..Len(rows) |-> rows[i].env_id = source_env_id]
      milestones == SelectIdx(Len(rows), keep, 1)
  IN  IF milestones = <<>>
      THEN [db EXCEPT !.audit = log_audit(@, user_id, "CLONE_PLAN", "bp_environments",
                                          new_env_id, "Source plan was empty", "System")]
      ELSE
        LET w == CloneMilestones([db |-> db, id_map |-> EmptyMap], milestones, 1,
                                 new_env_id, user_id)
            new_links_to_insert ==
              ClonePlanLinks(db.plan.dependencies, rows, 1,
                             [id_map |-> w.id_map, source_env_id |-> source_env_id])
        IN  [w.db EXCEPT !.plan.dependencies = @ \o new_links_to_insert,
                         !.audit = log_audit(@, user_id, "CLONE_PLAN", "bp_environments",
                                             new_env_id, "Cloned plan", "System")]

\* The transaction of the clone.  fault: a statement of it raises sqlite3.Error.
\* The INSERT of the environment raises on an env_id or env_name already used.
CloneTransaction(db, a, fault) ==
  LET insertRaises == \E e \in db.envs : e.env_id = a.new_env_id \/ e.env_name = a.new_env_name
      w1 == [db EXCEPT !.envs = @ \cup {[env_id |-> a.new_env_id,
                                         env_name |-> a.new_env_name,
                                         source_env_id |-> a.source_env_id,
                                         current_status |-> a.new_status]},
                       !.audit = log_audit(@, a.user_id, "CLONE", "bp_environments",
                                           a.new_env_id, a.comment, "Creator")]
      w2 == clone_db_records(w1, a.source_env_id, a.new_env_id, a.user_id,
                             a.folders_to_clone, a.versioning_logic)
      w3 == IF a.clone_plan_from_env_id # "none"
            THEN clone_project_plan(w2, a.clone_plan_from_env_id, a.new_env_id, a.user_id)
            ELSE w2
  IN  IF insertRaises \/ fault
      THEN Result(FALSE, "DatabaseError", EndTransaction(db, w3, TRUE))
      ELSE Result(TRUE, "cloned", EndTransaction(db, w3, FALSE))

clone_environment(db, a, fault) ==
  IF ~EnvExists(db, a.source_env_id)
    THEN Result(FALSE, "SourceNotFound", CleanupFolders(db, a.new_env_name))
  ELSE
    LET source_env == get_environment_by_id(db, a.source_env_id)
    IN  IF PhysicalCloneRaises(db, source_env.env_name, a.new_env_name)
          THEN Result(FALSE, "FolderError", CleanupFolders(db, a.new_env_name))
        ELSE
          LET copied == [db EXCEPT !.folders = @ \cup {a.new_env_name}]
              r == CloneTransaction(copied, a, fault)
          IN  IF r.ok THEN r
              ELSE Result(FALSE, r.msg, CleanupFolders(r.db, a.new_env_name))

\* ---------------------------------------------------------------- Scheduler
\* Dates are day numbers.  A milestone as the planning page hands it to the
\* engine: columns of the row and the key successor_milestone_id, 0 when the
\* dict has no such key or holds None.
Task(milestone_id, duration_days, due_date, status, successor_milestone_id) ==
  [milestone_id |-> milestone_id, duration_days |-> duration_days, due_date |-> due_date,
   status |-> status, successor_milestone_id |-> successor_milestone_id]

\* ORDER BY due_date ASC: NULL first, then by date; rows of one date by rowid
DueBefore(rows, i, j) ==
  LET day(k) == IF rows[k].due_date = <<>> THEN 0 ELSE rows[k].due_date[1]
      dated(k) == rows[k].due_date # <<>>
  IN  \/ ~dated(i) /\ dated(j)
      \/ dated(i) = dated(j) /\ (day(i) < day(j) \/ (day(i) = day(j) /\ i < j))

RECURSIVE OrderByDue(_, _)
OrderByDue(rows, ids) ==
  IF ids = {} THEN <<>>
  ELSE LET first == CHOOSE i \in ids : \A j \in ids \ {i} : DueBefore(rows, i, j)
       IN  <<first>> \o OrderByDue(rows, ids \ {first})

\* get_milestones_for_env: SELECT * FROM plan_project_milestones WHERE env_id = ?
\* ORDER BY due_date ASC.  The table has no column successor_milestone_id.
get_milestones_for_env(db, env_id) ==
  LET rows == db.plan.milestones
      order == OrderByDue(rows, {i \in 1..Len(rows) : rows[i].env_id = env_id})
  IN  [k \in 1..Len(order) |->
         Task(order[k], rows[order[k]].duration_days, rows[order[k]].due_date,
              rows[order[k]].status, 0)]

MinOf(S) == CHOOSE x \in S : \A y \in S : x <= y

MaxOf(S) == CHOOSE x \in S : \A y \in S : x >= y

RECURSIVE Enqueue(_, _, _)
\* for parent_id in rev_graph[task_id]: if parent_id not in queue: queue.append
Enqueue(queue, parents, k) ==
  IF k > Len(parents) THEN queue
  ELSE IF parents[k] \in SeqToSet(queue) THEN Enqueue(queue, parents, k + 1)
       ELSE Enqueue(Append(queue, parents[k]), parents, k + 1)

RECURSIVE TraverseUnclamped(_, _)
\* a loop that takes a negative duration as it is stored
TraverseUnclamped(g, st) ==
  IF st.queue = <<>> THEN st
  ELSE
    LET task_id == Head(st.queue)
        task == g.tasks[task_id]
        duration_days == IF task.duration_days = <<>> \/ task.duration_days = <<0>>
                         THEN 1 ELSE task.duration_days[1]
        successor_id == g.successor_map[task_id]
        due_date == IF successor_id # 0 /\ successor_id \in DOMAIN st.start
                    THEN st.start[successor_id] - 1
                    ELSE IF task.due_date = <<>> THEN g.now ELSE task.due_date[1]
        start_date == due_date - (duration_days - 1)
    IN  TraverseUnclamped(g, [queue |-> Enqueue(Tail(st.queue), g.rev_graph[task_id], 1),
                              start |-> (task_id :> start_date) @@ st.start,
                              end |-> (task_id :> due_date) @@ st.end,
                              visits |-> [st.visits EXCEPT ![task_id] = @ + 1]])

RECURSIVE Traverse(_, _)
\* the loop `while queue`.  g = [tasks, rev_graph, successor_map, now];
\* st = [queue, start, end, visits].
Traverse(g, st) ==
  IF st.queue = <<>> THEN st
  ELSE
    LET task_id == Head(st.queue)
        task == g.tasks[task_id]
        \* task.get('duration_days') or 1: None and 0 give 1
        given == IF task.duration_days = <<>> \/ task.duration_days = <<0>>
                 THEN 1 ELSE task.duration_days[1]
        duration_days == IF given < 1 THEN 1 ELSE given
        successor_id == g.successor_map[task_id]
        due_date == IF successor_id # 0 /\ successor_id \in DOMAIN st.start
                    THEN st.start[successor_id] - 1
                    ELSE IF task.due_date = <<>> THEN g.now ELSE task.due_date[1]
        start_date == due_date - (duration_days - 1)
    IN  Traverse(g, [queue |-> Enqueue(Tail(st.queue), g.rev_graph[task_id], 1),
                     start |-> (task_id :> start_date) @@ st.start,
                     end |-> (task_id :> due_date) @@ st.end,
                     visits |-> [st.visits EXCEPT ![task_id] = @ + 1]])

\* _calculate_project_plan(milestones_from_db), run on day `now`.  The result:
\* whether an exception left the function, the calc_start_date and
\* calc_due_date of the tasks that got them, the times each task was taken
\* from the queue, and the KPIs (a date is <<>> where the page shows "N/A").
calculate_project_plan(milestones_from_db, now) ==
  LET n == Len(milestones_from_db)
      ids == {milestones_from_db[k].milestone_id : k \in 1..n}
      tasks == [id \in ids |->
                  milestones_from_db[MaxOf({k \in 1..n :
                                             milestones_from_db[k].milestone_id = id})]]
      \* the keys of the dict, in the order of their first appearance
      first == [k \in 1..n |->
                  \A j \in 1..(k - 1) :
                    milestones_from_db[j].milestone_id # milestones_from_db[k].milestone_id]
      idx == SelectIdx(n, first, 1)
      keys == [k \in 1..Len(idx) |-> milestones_from_db[idx[k]].milestone_id]
      linked(id) == /\ tasks[id].successor_milestone_id # 0
                    /\ tasks[id].successor_milestone_id \in ids
      successor_map == [id \in ids |->
                          IF linked(id) THEN tasks[id].successor_milestone_id ELSE 0]
      rev_graph == [id \in ids |->
                      LET is_parent == [k \in 1..Len(keys) |-> successor_map[keys[k]] = id]
                          at == SelectIdx(Len(keys), is_parent, 1)
                      IN  [k \in 1..Len(at) |-> keys[at[k]]]]
      is_root == [k \in 1..Len(keys) |-> ~linked(keys[k])]
      roots_at == SelectIdx(Len(keys), is_root, 1)
      root_tasks == [k \in 1..Len(roots_at) |-> keys[roots_at[k]]]
      done == Traverse([tasks |-> tasks, rev_graph |-> rev_graph,
                        successor_map |-> successor_map, now |-> now],
                       [queue |-> root_tasks, start |-> EmptyMap, end |-> EmptyMap,
                        visits |-> [id \in ids |-> 0]])
      ends_of_roots == {done.end[id] : id \in SeqToSet(root_tasks) \cap DOMAIN done.end}
      tasks_complete == Cardinality({id \in ids : tasks[id].status = "Complete"})
      project_start_date == MinOf({done.start[id] : id \in DOMAIN done.start})
      project_end_date == MaxOf(ends_of_roots)
  IN  IF n = 0
      THEN [raised |-> FALSE, calc_start_date |-> EmptyMap, calc_due_date |-> EmptyMap,
            visits |-> EmptyMap,
            kpis |-> [project_start_date |-> <<>>, project_end_date |-> <<>>,
                      total_duration_days |-> 0, total_tasks |-> 0, tasks_complete |-> 0]]
      ELSE IF DOMAIN done.start # {} /\ ends_of_roots = {}
      \* max() of an empty sequence raises ValueError
      THEN [raised |-> TRUE, calc_start_date |-> done.start, calc_due_date |-> done.end,
            visits |-> done.visits,
            kpis |-> [project_start_date |-> <<>>, project_end_date |-> <<>>,
                      total_duration_days |-> 0, total_tasks |-> 0, tasks_complete |-> 0]]
      ELSE [raised |-> FALSE, calc_start_date |-> done.start, calc_due_date |-> done.end,
            visits |-> done.visits,
            kpis |-> IF DOMAIN done.start # {}
                     THEN [project_start_date |-> <<project_start_date>>,
                           project_end_date |-> <<project_end_date>>,
                           total_duration_days |-> project_end_date - project_start_date + 1,
                           total_tasks |-> Cardinality(ids),
                           tasks_complete |-> tasks_complete]
                     ELSE [project_start_date |-> <<now>>, project_end_date |-> <<now>>,
                           total_duration_days |-> 0, total_tasks |-> Cardinality(ids),
                           tasks_complete |-> tasks_complete]]

\* the planning page: the engine's result, or the error the page shows when
\* the engine raises ("Error calculating project plan ... circular dependency")
render_project_plan(milestones_from_db, now) ==
  LET r == calculate_project_plan(milestones_from_db, now)
  IN  [milestones_from_db |-> milestones_from_db, calculated |-> TRUE,
       error |-> IF r.raised THEN "Error calculating project plan" ELSE "none",
       result |-> r]

NoSchedule ==
  [milestones_from_db |-> <<>>, calculated |-> FALSE, error |-> "none",
   result |-> calculate_project_plan(<<>>, 0)]

\* --------------------------------------------- environments and blueprints
\* create_new_environment: the folders first, then the row and its audit
\* entry in one transaction; the folders stay when the transaction fails
create_new_environment(db, a, fault) ==
  IF a.env_name \in db.folders THEN Result(FALSE, "FolderError", db)
  ELSE
    LET created == [db EXCEPT !.folders = @ \cup {a.env_name}]
        raised == \/ \E e \in db.envs : e.env_id = a.env_id \/ e.env_name = a.env_name
                  \/ fault
        work == [created EXCEPT
                   !.envs = @ \cup {[env_id |-> a.env_id, env_name |-> a.env_name,
                                     source_env_id |-> "none", current_status |-> "Active"]},
                   !.audit = log_audit(@, a.user_id, "CREATE", "bp_environments", a.env_id,
                                       a.comment, "Creator")]
    IN  IF raised THEN Result(FALSE, "DatabaseError", EndTransaction(created, work, TRUE))
        ELSE Result(TRUE, "created", EndTransaction(created, work, FALSE))

\* edit_environment: the UPDATE of the display name and status (of no row when
\* the id is unknown; env_name is UNIQUE) and one audit entry
edit_environment(db, a, fault) ==
  LET raised == \/ /\ EnvExists(db, a.env_id)
                   /\ \E e \in db.envs : e.env_id # a.env_id /\ e.env_name = a.env_name
                \/ fault
      work == [db EXCEPT
                 !.envs = {IF e.env_id = a.env_id
                           THEN [e EXCEPT !.env_name = a.env_name, !.current_status = a.status]
                           ELSE e : e \in @},
                 !.audit = log_audit(@, a.user_id, "UPDATE", "bp_environments", a.env_id,
                                     a.comment, "Admin")]
  IN  IF raised THEN Result(FALSE, "DatabaseError", EndTransaction(db, work, TRUE))
      ELSE Result(TRUE, "updated", EndTransaction(db, work, FALSE))

\* create_file_blueprint: the JSON of expected_structure is validated, then the
\* INSERT (template_id is the primary key) and one audit entry
create_file_blueprint(db, a, fault) ==
  IF ~a.valid_json THEN Result(FALSE, "ValueError", db)
  ELSE
    LET raised == \/ BlueprintExists(a.template_id)
                  \/ a.template_id \in DOMAIN db.blueprints
                  \/ fault
        work == [db EXCEPT
                   !.blueprints = (a.template_id :> "Active") @@ @,
                   !.audit = log_audit(@, a.user_id, "CREATE", "bp_file_templates",
                                       a.template_id, "Created new blueprint", "Creator")]
    IN  IF raised THEN Result(FALSE, "DatabaseError", EndTransaction(db, work, TRUE))
        ELSE Result(TRUE, "created", EndTransaction(db, work, FALSE))

\* edit_file_blueprint: the UPDATE (of no row when the id is unknown) and one
\* audit entry
edit_file_blueprint(db, a, fault) ==
  IF ~a.valid_json THEN Result(FALSE, "ValueError", db)
  ELSE
    LET work == [db EXCEPT
                   !.blueprints = [t \in DOMAIN @ |->
                                     IF t = a.template_id THEN a.template_status ELSE @[t]],
                   !.audit = log_audit(@, a.user_id, "UPDATE", "bp_file_templates",
                                       a.template_id, "Updated blueprint", "Admin")]
    IN  IF fault THEN Result(FALSE, "DatabaseError", EndTransaction(db, work, TRUE))
        ELSE Result(TRUE, "updated", EndTransaction(db, work, FALSE))

\* delete_file_blueprint: refused while a row of an instance table uses the
\* blueprint; else the DELETE and one audit entry
delete_file_blueprint(db, a, fault) ==
  IF \E t \in Tables : \E i \in 1..Len(db.inst[t]) : db.inst[t][i].template_id = a.template_id
    THEN Result(FALSE, "InUse", db)
  ELSE
    LET work == [db EXCEPT
                   !.blueprints = [t \in DOMAIN @ \ {a.template_id} |-> @[t]],
                   !.audit = log_audit(@, a.user_id, "DELETE", "bp_file_templates",
                                       a.template_id, "Deleted blueprint.", "Admin")]
    IN  IF fault THEN Result(FALSE, "DatabaseError", EndTransaction(db, work, TRUE))
        ELSE Result(TRUE, "deleted", EndTransaction(db, work, FALSE))

\* prune_archived_environment: the folder of an 'Archived' environment is
\* removed (when there is one), then one audit entry is written
prune_archived_environment(db, a, fault) ==
  IF ~EnvExists(db, a.env_id) THEN Result(FALSE, "EnvNotFound", db)
  ELSE
    LET env_data == get_environment_by_id(db, a.env_id)
        pruned == [db EXCEPT !.folders = @ \ {env_data.env_name}]
        work == [pruned EXCEPT
                   !.audit = log_audit(@, a.user_id, "PRUNE_FILES", "bp_environments",
                                       a.env_id,
                                       IF env_data.env_name \in db.folders
                                       THEN "Deleted all physical files"
                                       ELSE "No physical folder found", "Admin")]
    IN  IF env_data.current_status # "Archived" THEN Result(FALSE, "PermissionError", db)
        ELSE IF fault THEN Result(FALSE, "DatabaseError", EndTransaction(pruned, work, TRUE))
        ELSE Result(TRUE, "pruned", EndTransaction(pruned, work, FALSE))

\* ------------------------------------------------------------------ inputs
Hashes == {"h1", "h2"}

\* an upload that passes every check of its blueprint: data inputs declare
\* no parent, a result or a model declares the first data input as its parent
GoodUploads ==
  [user_id : {"ann"}, user_role : {"analyst"}, env_id : {"e1"},
   template_id : {"tA"}, file_hash : Hashes, file_ext : {".csv"},
   file_size_kb : {5}, actual_columns : {{"c1"}}, source_ids : {<<>>},
   comment : {"upload"}]
  \cup
  [user_id : {"ann"}, user_role : {"analyst"}, env_id : {"e1"},
   template_id : {"tB", "tM"}, file_hash : {"h1"}, file_ext : {".csv"},
   file_size_kb : {5}, actual_columns : {{"c1"}},
   source_ids : {<< <<"inst_data_input_files", 1>> >>}, comment : {"upload"}]

\* the uploads with one thing wrong each: the extension, the size (below the
\* minimum, above the maximum), the columns
BadUploads ==
  LET base == {a \in GoodUploads : a.template_id # "tM" /\ a.file_hash = "h1"}
  IN  {[a EXCEPT !.file_ext = ".txt"] : a \in base} \cup
      {[a EXCEPT !.file_size_kb = 0] : a \in base} \cup
      {[a EXCEPT !.file_size_kb = 20] : a \in base} \cup
      {[a EXCEPT !.actual_columns = {}] : a \in base}

UploadCalls == GoodUploads \cup BadUploads

\* the same uploads made by a manager, a role the data blueprint does not list
ManagerUploads ==
  {[a EXCEPT !.user_id = "mo", !.user_role = "manager"] : a \in UploadCalls}

\* the users of the model and the role each logs in with
Actors == {<<"ann", "analyst">>, <<"mo", "manager">>, <<"root", "admin">>}

\* the rows a sign-off may name: existing or not, in a table with rows or not
SignoffTargets ==
  {<<"inst_data_input_files", 1>>, <<"inst_data_input_files", 2>>,
   <<"inst_result_files", 1>>, <<"inst_actuarial_model_files", 1>>}

SignoffCall(actor, action, capacity, comment, target) ==
  [user_id |-> actor[1], user_role |-> actor[2], target_table |-> target[1],
   target_id |-> target[2], action |-> action, capacity |-> capacity,
   comment |-> comment]

\* what the workspace forms submit: a Doer sign-off, a Reviewer approval, a
\* Reviewer rejection
FormCalls ==
  {SignoffCall(c[1], c[2], c[3], c[4], t) :
     c \in {<< <<"ann", "analyst">>, "SIGN_OFF", "Doer", "ok" >>,
            << <<"mo", "manager">>, "SIGN_OFF", "Reviewer", "ok" >>,
            << <<"mo", "manager">>, "REJECT", "Reviewer", "ok" >>},
     t \in SignoffTargets}

\* the sign-offs the model performs: the forms' calls, a sign-off with no
\* comment, and an admin's revoke in the Reviewer capacity
SignoffCalls ==
  FormCalls \cup
  {SignoffCall(c[1], c[2], c[3], c[4], t) :
     c \in {<< <<"ann", "analyst">>, "SIGN_OFF", "Doer", "" >>,
            << <<"root", "admin">>, "REVOKE", "Reviewer", "ok" >>},
     t \in SignoffTargets}

\* every combination of actor, action and capacity, for statements about all
\* calls
SignoffInputs ==
  {SignoffCall(actor, action, capacity, "ok", t) :
     actor \in Actors, action \in {"SIGN_OFF", "REJECT", "REVOKE"},
     capacity \in {"Doer", "Reviewer", "Admin"}, t \in SignoffTargets}

\* which statement of a sign-off's transaction raises (0: none)
SignoffFaults == 0..2

\* the clones the model performs: every profile, over all folders or the
\* data inputs alone, into a new environment
CloneCalls ==
  [source_env_id : {"e1"}, new_env_id : {"e2"}, new_env_name : {"E2"},
   user_id : {"root"}, new_status : {"Active"}, clone_plan_from_env_id : {"none"},
   folders_to_clone : {ALL_FOLDERS, <<"Data Inputs">>},
   versioning_logic : {"Latest Approved", "Full History (No Superseded)",
                       "Carbon Copy (Forensic)"},
   comment : {"clone"}]

\* the clones that also copy the project plan of the source environment
PlanCloneCalls ==
  {[a EXCEPT !.clone_plan_from_env_id = "e1"] :
     a \in {c \in CloneCalls : c.folders_to_clone = ALL_FOLDERS}}

\* the same clones under an environment id that may be in use already
TakenIdCloneCalls == {[a EXCEPT !.new_env_id = "e3"] : a \in PlanCloneCalls}

\* the milestones the planning page creates: a final deadline with its date,
\* and a second one with no date that names the first as its predecessor
MilestoneCalls ==
  {[env_id |-> "e1", user_id |-> "ann", title |-> "Final", owner_user_id |-> "mo",
    duration_days |-> <<1>>, due_date |-> <<9>>, predecessor_ids |-> <<>>],
   [env_id |-> "e1", user_id |-> "ann", title |-> "Prepare", owner_user_id |-> "ann",
    duration_days |-> <<2>>, due_date |-> <<>>, predecessor_ids |-> <<1>>]}

StatusCalls == {[milestone_id |-> 1, status |-> "Complete", user_id |-> "ann"]}

ActionItemCalls == {[env_id |-> "e1", user_id |-> "ann"]}

CloseCalls == {[action_id |-> 1, user_id |-> "ann"]}

\* a new environment under a new name, and one under the name the clones use
EnvironmentCalls ==
  [env_id : {"e3"}, env_name : {"E3", "E2"}, user_id : {"root"}, comment : {"new"}]

EditCalls ==
  {[env_id |-> "e1", env_name |-> "E1", status |-> "Archived", user_id |-> "root",
    comment |-> "archive"]}

BlueprintCalls ==
  [template_id : {"tX"}, template_status : {"Archived"}, valid_json : BOOLEAN,
   user_id : {"root"}]

PruneCalls == {[env_id |-> "e1", user_id |-> "root"]}

\* the durations and the deadline of the plans the model schedules, and the
\* days on which the planning page is opened
Durations == {<<>>, <<-1>>, <<0>>, <<3>>}

Deadlines == {20}

Nows == {25}

\* what one milestone dict may hold, in a plan of n milestones: a duration, a
\* successor among the n (0: none), and a due date when it is a final deadline
TaskOptions(n) ==
  {o \in [duration_days : Durations, successor_milestone_id : 0..n,
          due_date : {<<>>} \cup {<<d>> : d \in Deadlines}] :
     o.successor_milestone_id # 0 => o.due_date = <<>>}

\* the milestone lists of length n handed to the engine: the tasks 1..n, each
\* feeding any task of the list (itself included) or none
ScheduleInputs(n) ==
  {[k \in 1..n |-> Task(k, f[k].duration_days, f[k].due_date, "Pending",
                        f[k].successor_milestone_id)] :
     f \in [1..n -> TaskOptions(n)]}

\* the milestones created through the service: two open-ended ones and a final
\* deadline, each naming none, one or two predecessors
PlanCalls ==
  {[env_id |-> "e1", user_id |-> "ann", title |-> "Task", owner_user_id |-> "ann",
    duration_days |-> <<c[1]>>, due_date |-> c[2], predecessor_ids |-> p] :
     c \in {<<10, <<>> >>, <<5, <<>> >>, <<1, <<20>> >>},
     p \in {<<>>, <<1>>, <<2>>, <<1, 2>>}}

\* the milestones created in two environments: with or without a deadline,
\* naming none, one or two milestones by id as predecessors
StoreCalls ==
  {[env_id |-> c[1], user_id |-> "ann", title |-> "Task", owner_user_id |-> "mo",
    duration_days |-> <<2>>, due_date |-> c[2], predecessor_ids |-> c[3]] :
     c \in {<<"e1", <<>>, <<>> >>, <<"e1", <<20>>, <<>> >>, <<"e1", <<>>, <<1>> >>,
            <<"e1", <<20>>, <<1>> >>, <<"e1", <<>>, <<2>> >>, <<"e1", <<>>, <<1, 2>> >>,
            <<"e3", <<>>, <<>> >>, <<"e3", <<>>, <<1>> >>}}

\* the clones that copy the plan of either environment
StoreCloneCalls ==
  {[a EXCEPT !.clone_plan_from_env_id = e] :
     a \in {c \in CloneCalls : /\ c.folders_to_clone = ALL_FOLDERS
                               /\ c.versioning_logic = "Latest Approved"},
     e \in {"e1", "e3"}}

\* which statement of a transaction raises (0: none)
Faults == 0..4

\* the concurrent callers
Procs == 1..NumProcs

\* the uploads the concurrent callers make: versions of one blueprint in one
\* environment
ConcCalls == {a \in GoodUploads : a.template_id = "tA"}

NoCall == [a |-> CHOOSE a \in ConcCalls : TRUE, new_file_id_int |-> 0]

NoPlan == [milestones |-> <<>>, dependencies |-> <<>>, action_items |-> <<>>]

NoBlueprints == [x \in {} |-> "none"]

NoJournal ==
  [envs |-> {}, inst |-> [t \in Tables |-> <<>>], audit |-> <<>>, lineage |-> <<>>,
   folders |-> {}, plan |-> NoPlan, blueprints |-> NoBlueprints]

\* ------------------------------------------------------------------ actions
Sequential == UNCHANGED <<pc, call, lock, journal, schedule>>

Install(op, r) ==
  /\ envs' = r.db.envs
  /\ inst' = r.db.inst
  /\ audit' = r.db.audit
  /\ lineage' = r.db.lineage
  /\ folders' = r.db.folders
  /\ plan' = r.db.plan
  /\ blueprints' = r.db.blueprints
  /\ last' = [op |-> op, ok |-> r.ok, msg |-> r.msg]
  /\ Sequential

WithinBounds(db, max_audit) ==
  /\ \A t \in Tables : Len(db.inst[t]) <= MaxRows
  /\ Len(db.audit) <= max_audit

\* one call of upload_new_file_instance, its transaction cut short at
\* statement `fault` when fault > 0
UploadOf(calls, faults, max_audit) ==
  \E a \in calls, fault \in faults :
    LET r == upload_new_file_instance(DB, a, fault)
    IN  /\ WithinBounds(r.db, max_audit)
        /\ Install("upload", r)

\* one call of log_user_signoff
SignOffOf(calls, faults, max_audit) ==
  \E a \in calls, fault \in faults :
    LET r == log_user_signoff(DB, a, fault)
    IN  /\ WithinBounds(r.db, max_audit)
        /\ Install("signoff", r)

Upload == UploadOf(UploadCalls, {0}, MaxAudit)

UploadFault ==
  UploadOf({a \in GoodUploads : a.template_id # "tM"}, Faults \ {0}, MaxAudit)

SignOff == SignOffOf(SignoffCalls, {0}, MaxAudit)

SignOffFault ==
  SignOffOf({a \in FormCalls : a.action = "REJECT"}, SignoffFaults \ {0}, MaxAudit)

InitRegistry ==
  /\ envs = {[env_id |-> "e1", env_name |-> "E1", source_env_id |-> "none",
               current_status |-> "Active"]}
  /\ inst = [t \in Tables |-> <<>>]
  /\ audit = <<>>
  /\ lineage = <<>>
  /\ folders = {"E1"}
  /\ plan = NoPlan
  /\ blueprints = NoBlueprints
  /\ last = [op |-> "none", ok |-> TRUE, msg |-> "none"]
  /\ pc = [p \in Procs |-> "idle"]
  /\ call = [p \in Procs |-> NoCall]
  /\ lock = 0
  /\ journal = NoJournal

Init == InitRegistry /\ schedule = NoSchedule

Next == Upload \/ UploadFault \/ SignOff \/ SignOffFault

\* the governance engine: uploads and sign-offs, one call at a time
Spec == Init /\ [][Next]_vars

\* ------------------------------------------------------- environment clones
UploadOk == UploadOf({a \in GoodUploads : a.template_id # "tM"}, {0}, MaxAudit)

SignOffOk == SignOffOf(FormCalls, {0}, MaxAudit)

\* one call of clone_environment, its transaction raising when `fault`
Clone ==
  \E a \in CloneCalls, fault \in BOOLEAN :
    LET r == clone_environment(DB, a, fault)
    IN  /\ WithinBounds(r.db, MaxCloneAudit)
        /\ Install("clone", r)

NextClone == UploadOk \/ SignOffOk \/ Clone

\* uploads and sign-offs in one environment, and clones of it
SpecClone == Init /\ [][NextClone]_vars

\* ------------------------------------------ every writer of the audit trail
\* one call of a handler whose transaction raises when `fault`
CallOf(op, r) ==
  /\ Len(r.db.audit) <= MaxAdminAudit
  /\ Install(op, r)

UploadOne ==
  UploadOf({a \in GoodUploads : a.template_id = "tA" /\ a.file_hash = "h1"}, {0},
           MaxAdminAudit)

SignOffOne ==
  SignOffOf({a \in FormCalls : /\ a.user_id = "mo"
                               /\ a.target_table = "inst_data_input_files"
                               /\ a.target_id = 1}, {0}, MaxAdminAudit)

ClonePlan ==
  \E a \in PlanCloneCalls, fault \in BOOLEAN :
    LET r == clone_environment(DB, a, fault)
    IN  /\ WithinBounds(r.db, MaxCloneAudit)
        /\ Install("clone", r)

CreateMilestone ==
  \E a \in MilestoneCalls, fault \in BOOLEAN :
    CallOf("create_milestone", create_milestone(DB, a, fault))

UpdateMilestoneStatus ==
  \E a \in StatusCalls, fault \in BOOLEAN :
    CallOf("update_milestone_status", update_milestone_status(DB, a, fault))

CreateActionItem ==
  \E a \in ActionItemCalls, fault \in BOOLEAN :
    CallOf("create_action_item", create_action_item(DB, a, fault))

CloseActionItem ==
  \E a \in CloseCalls, fault \in BOOLEAN :
    CallOf("close_action_item", close_action_item(DB, a, fault))

CreateEnvironment ==
  \E a \in EnvironmentCalls, fault \in BOOLEAN :
    CallOf("create_new_environment", create_new_environment(DB, a, fault))

EditEnvironment ==
  \E a \in EditCalls, fault \in BOOLEAN :
    CallOf("edit_environment", edit_environment(DB, a, fault))

CreateBlueprint ==
  \E a \in BlueprintCalls, fault \in BOOLEAN :
    CallOf("create_file_blueprint", create_file_blueprint(DB, a, fault))

EditBlueprint ==
  \E a \in BlueprintCalls, fault \in BOOLEAN :
    CallOf("edit_file_blueprint", edit_file_blueprint(DB, a, fault))

DeleteBlueprint ==
  \E a \in BlueprintCalls, fault \in BOOLEAN :
    CallOf("delete_file_blueprint", delete_file_blueprint(DB, a, fault))

Prune ==
  \E a \in PruneCalls, fault \in BOOLEAN :
    CallOf("prune_archived_environment", prune_archived_environment(DB, a, fault))

NextAdmin ==
  \/ UploadOne \/ SignOffOne \/ ClonePlan
  \/ CreateMilestone \/ UpdateMilestoneStatus \/ CreateActionItem \/ CloseActionItem
  \/ CreateEnvironment \/ EditEnvironment
  \/ CreateBlueprint \/ EditBlueprint \/ DeleteBlueprint \/ Prune

\* the administration and planning pages at work beside the workspace
SpecAdmin == Init /\ [][NextAdmin]_vars

\* ------------------------------------------------------- the planning page
\* the engine runs on a list of milestone dicts handed to it
Calculate ==
  /\ ~schedule.calculated
  /\ schedule.milestones_from_db # <<>>
  /\ \E now \in Nows :
       schedule' = render_project_plan(schedule.milestones_from_db, now)
  /\ UNCHANGED <<envs, inst, audit, lineage, folders, plan, blueprints, last, pc, call,
                 lock, journal>>

\* one call of create_milestone
PlanMilestone ==
  /\ ~schedule.calculated
  /\ schedule.milestones_from_db = <<>>
  /\ Len(plan.milestones) < MaxTasks
  /\ \E a \in PlanCalls : Install("create_milestone", create_milestone(DB, a, FALSE))

\* the page is opened on an environment: it reads the milestones of the
\* environment and runs the engine on them
ViewPlan ==
  /\ ~schedule.calculated
  /\ schedule.milestones_from_db = <<>>
  /\ \E now \in Nows :
       schedule' = render_project_plan(get_milestones_for_env(DB, "e1"), now)
  /\ UNCHANGED <<envs, inst, audit, lineage, folders, plan, blueprints, last, pc, call,
                 lock, journal>>

\* either a list of milestones is handed to the engine, or the plan is built
\* through the service and the page opened on it
InitPlan ==
  /\ InitRegistry
  /\ \E n \in 0..MaxTasks : \E ms \in ScheduleInputs(n) :
       schedule = [NoSchedule EXCEPT !.milestones_from_db = ms]

NextPlan == Calculate \/ PlanMilestone \/ ViewPlan

SpecPlan == InitPlan /\ [][NextPlan]_vars

\* ------------------------------------------------------ the planning store
\* a second environment is created
StoreEnvironment ==
  \E a \in {c \in EnvironmentCalls : c.env_name = "E3"} :
    Install("create_new_environment", create_new_environment(DB, a, FALSE))

\* a milestone is created in either environment
StoreMilestone ==
  /\ Len(plan.milestones) < MaxTasks
  /\ \E a \in StoreCalls : Install("create_milestone", create_milestone(DB, a, FALSE))

\* an environment is cloned together with a plan
StoreClone ==
  \E a \in StoreCloneCalls : Install("clone", clone_environment(DB, a, FALSE))

\* a pending milestone is marked complete, among the first writes
StoreStatus ==
  \E a \in StatusCalls :
    /\ a.milestone_id \in 1..Len(plan.milestones)
    /\ plan.milestones[a.milestone_id].status = "Pending"
    /\ CallOf("update_milestone_status", update_milestone_status(DB, a, FALSE))

NextStore == StoreEnvironment \/ StoreMilestone \/ StoreStatus \/ StoreClone

\* milestones of two environments and the clones of their plans
SpecStore == Init /\ [][NextStore]_vars

\* ------------------------------------------- concurrent uploads, by statement
\* Each caller has its own connection.  The connection opens its transaction
\* at the first UPDATE, which takes the database's write lock; the lock is held
\* until COMMIT or ROLLBACK.  A reader sees the database as last committed.
Committed == IF lock = 0 THEN DB ELSE journal

\* a database whose connections never wait for each other
LockFreeAlways(holder, p) == TRUE

\* the write lock is free for caller p
LockFree(holder, p) == holder = 0 \/ holder = p

Return(p, ok, msg) ==
  /\ pc' = [pc EXCEPT ![p] = "idle"]
  /\ call' = [call EXCEPT ![p] = NoCall]
  /\ last' = [op |-> "upload", ok |-> ok, msg |-> msg]

\* the lookups and checks up to the transaction, the duplicate check among them
Check(p) ==
  /\ pc[p] = "idle"
  /\ Len(inst["inst_data_input_files"]) + Cardinality({q \in Procs : pc[q] # "idle"})
       < MaxRows
  /\ \E a \in ConcCalls :
       LET checked == UploadChecks(Committed, a)
       IN  IF checked = "ok"
           THEN /\ pc' = [pc EXCEPT ![p] = "update"]
                /\ call' = [call EXCEPT ![p] = [a |-> a, new_file_id_int |-> 0]]
                /\ UNCHANGED last
           ELSE Return(p, FALSE, checked)
  /\ UNCHANGED <<schedule, plan, blueprints, envs, inst, audit, lineage, folders, lock, journal>>

\* UPDATE ... SET current_status = 'Superseded': begins the transaction
Update(p) ==
  LET a == call[p].a
      table == STAGE_TO_TABLE_MAP[get_file_blueprint_by_id(a.template_id).stage]
  IN  /\ pc[p] = "update"
      /\ LockFree(lock, p)
      /\ lock' = p
      /\ journal' = IF lock = 0 THEN DB ELSE journal
      /\ inst' = [inst EXCEPT ![table] = Supersede(@, a.template_id, a.env_id)]
      /\ pc' = [pc EXCEPT ![p] = "insert"]
      /\ UNCHANGED <<schedule, plan, blueprints, envs, audit, lineage, folders, last, call>>

\* the UPDATE finds the lock held past the connection's busy timeout:
\* sqlite3.OperationalError, nothing written
Busy(p) ==
  /\ pc[p] = "update"
  /\ ~LockFree(lock, p)
  /\ Return(p, FALSE, "DatabaseError")
  /\ UNCHANGED <<schedule, plan, blueprints, envs, inst, audit, lineage, folders, lock, journal>>

\* INSERT INTO {table} ... 'Active'; new_file_id_int = cursor.lastrowid
Insert(p) ==
  LET a == call[p].a
      table == STAGE_TO_TABLE_MAP[get_file_blueprint_by_id(a.template_id).stage]
  IN  /\ pc[p] = "insert"
      /\ inst' = [inst EXCEPT ![table] =
                    Append(@, NewRow(a.template_id, a.env_id, a.file_hash, "Active",
                                     a.user_id))]
      /\ call' = [call EXCEPT ![p].new_file_id_int = Len(inst[table]) + 1]
      /\ pc' = [pc EXCEPT ![p] = "audit"]
      /\ UNCHANGED <<schedule, plan, blueprints, envs, audit, lineage, folders, last, lock, journal>>

\* _log_audit(cursor, user_id, "CREATE", table, new_file_id_int, comment, "Doer")
Audit(p) ==
  LET a == call[p].a
      table == STAGE_TO_TABLE_MAP[get_file_blueprint_by_id(a.template_id).stage]
  IN  /\ pc[p] = "audit"
      /\ audit' = log_audit(audit, a.user_id, "CREATE", table, call[p].new_file_id_int,
                            a.comment, "Doer")
      /\ pc' = [pc EXCEPT ![p] = "lineage"]
      /\ UNCHANGED <<schedule, plan, blueprints, envs, inst, lineage, folders, last, call, lock, journal>>

\* the lineage INSERT per declared parent
Lineage(p) ==
  LET a == call[p].a
      table == STAGE_TO_TABLE_MAP[get_file_blueprint_by_id(a.template_id).stage]
  IN  /\ pc[p] = "lineage"
      /\ lineage' = lineage \o LineageRows(a.source_ids, table, call[p].new_file_id_int)
      /\ pc' = [pc EXCEPT ![p] = "commit"]
      /\ UNCHANGED <<schedule, plan, blueprints, envs, inst, audit, folders, last, call, lock, journal>>

\* the `with conn:` block ends normally: COMMIT
Commit(p) ==
  /\ pc[p] = "commit"
  /\ lock' = 0
  /\ journal' = NoJournal
  /\ Return(p, TRUE, "uploaded")
  /\ UNCHANGED <<schedule, plan, blueprints, envs, inst, audit, lineage, folders>>

\* a statement of the open transaction raises: ROLLBACK
Raise(p) ==
  /\ pc[p] \in {"insert", "audit", "lineage", "commit"}
  /\ inst' = journal.inst
  /\ audit' = journal.audit
  /\ lineage' = journal.lineage
  /\ lock' = 0
  /\ journal' = NoJournal
  /\ Return(p, FALSE, "DatabaseError")
  /\ UNCHANGED <<schedule, plan, blueprints, envs, folders>>

NextConc ==
  \E p \in Procs :
    \/ Check(p) \/ Update(p) \/ Busy(p) \/ Insert(p)
    \/ Audit(p) \/ Lineage(p) \/ Commit(p) \/ Raise(p)

\* uploads of one blueprint's versions by concurrent callers
SpecConc == Init /\ [][NextConc]_vars

\* -------------------------------------------------------------- properties
SameKey(r1, r2) == r1.template_id = r2.template_id /\ r1.env_id = r2.env_id

OneActivePerKey(tables) ==
  \A t \in Tables : \A i, j \in 1..Len(tables[t]) :
     (i < j /\ SameKey(tables[t][i], tables[t][j])) =>
       ~(tables[t][i].current_status = "Active" /\ tables[t][j].current_status = "Active")

\* C1: in every reachable state, after any sequence of uploads, sign-offs
\* and clones, each (template_id, env_id) pair has at most one row whose
\* current_status is 'Active'.
C1_AtMostOneActive == OneActivePerKey(inst)

HasCreateEntry(trail, t, i) ==
  \E k \in 1..Len(trail) :
     /\ trail[k].action = "CREATE"
     /\ trail[k].target_table = t
     /\ trail[k].target_id = i

\* the four writes of upload `a`, from database `pre` to database `post`
FourWrites(pre, post, a) ==
  LET t == STAGE_TO_TABLE_MAP[bp_file_templates[a.template_id].stage]
      n == Len(pre.inst[t])
  IN  /\ Len(post.inst[t]) = n + 1
      /\ post.inst[t][n + 1] = [template_id |-> a.template_id, env_id |-> a.env_id,
                                file_hash_sha256 |-> a.file_hash,
                                current_status |-> "Active", created_by |-> a.user_id]
      /\ \A i \in 1..n :
           post.inst[t][i] =
             IF /\ pre.inst[t][i].template_id = a.template_id
                /\ pre.inst[t][i].env_id = a.env_id
                /\ pre.inst[t][i].current_status = "Active"
             THEN [pre.inst[t][i] EXCEPT !.current_status = "Superseded"]
             ELSE pre.inst[t][i]
      /\ \A u \in Tables \ {t} : post.inst[u] = pre.inst[u]
      /\ Len(post.audit) = Len(pre.audit) + 1
      /\ SubSeq(post.audit, 1, Len(pre.audit)) = pre.audit
      /\ HasCreateEntry(<<post.audit[Len(post.audit)]>>, t, n + 1)
      /\ Len(post.lineage) = Len(pre.lineage) + Len(a.source_ids)
      /\ SubSeq(post.lineage, 1, Len(pre.lineage)) = pre.lineage
      /\ \A k \in 1..Len(a.source_ids) :
           LET link == post.lineage[Len(pre.lineage) + k]
           IN  /\ link.child_table = t /\ link.child_id = n + 1
               /\ link.parent_table = a.source_ids[k][1]
               /\ link.parent_id = a.source_ids[k][2]

\* C2: the four writes of an upload are one atomic step.  In no reachable
\* state, a failure part-way through included, does a row exist without its
\* CREATE audit entry, or is a version Superseded without the row that
\* supersedes it; and an upload from any reachable state, whichever of its
\* statements raises, either makes all four writes or leaves the database
\* as it was.
C2_UploadAtomic ==
  /\ \A t \in Tables : \A i \in 1..Len(inst[t]) :
       /\ HasCreateEntry(audit, t, i)
       /\ inst[t][i].current_status = "Superseded" =>
            \E j \in (i + 1)..Len(inst[t]) : SameKey(inst[t][i], inst[t][j])
  /\ \A a \in GoodUploads, fault \in Faults :
       LET r == upload_new_file_instance(DB, a, fault)
       IN  IF r.ok THEN FourWrites(DB, r.db, a) ELSE r.db = DB

\* an upload has failed inside its transaction while a version was Active
C2_Witness ==
  /\ last = [op |-> "upload", ok |-> FALSE, msg |-> "DatabaseError"]
  /\ \E i \in 1..Len(inst["inst_data_input_files"]) :
       inst["inst_data_input_files"][i].current_status = "Active"

\* the file fails a rule of its blueprint: the extension, the size limits
\* that are set, the expected columns
InvalidUpload(a) ==
  LET bp == bp_file_templates[a.template_id]
  IN  \/ a.file_ext # bp.expected_extension
      \/ bp.min_file_size_kb # 0 /\ a.file_size_kb < bp.min_file_size_kb
      \/ bp.max_file_size_kb # 0 /\ a.file_size_kb > bp.max_file_size_kb
      \/ SchemaMismatch(bp, a)

\* C3: an upload that fails validation (wrong extension, size outside the
\* blueprint's limits, or schema mismatch) leaves the instance tables and the
\* audit trail exactly as they were.
C3_InvalidUploadWritesNothing ==
  \A a \in UploadCalls :
     InvalidUpload(a) =>
       LET r == upload_new_file_instance(DB, a, 0)
       IN  r.db.inst = inst /\ r.db.audit = audit

\* C4: when uploads for one (blueprint, environment) run concurrently, under
\* every interleaving of their duplicate checks, UPDATEs, INSERTs and commits
\* that the database's transactions permit, no committed state has two Active
\* rows for the pair.
C4_ConcurrentOneActive == OneActivePerKey(Committed.inst)

\* two callers passed the duplicate check with the same content before either
\* committed, and both have committed since
C4_Witness ==
  /\ lock = 0
  /\ \E i, j \in 1..Len(inst["inst_data_input_files"]) :
       /\ i < j
       /\ inst["inst_data_input_files"][i].file_hash_sha256 =
            inst["inst_data_input_files"][j].file_hash_sha256
       /\ inst["inst_data_input_files"][j].current_status = "Active"

\* the entry log_user_signoff appends for call `a`
SignoffEntry(a) ==
  [user_id |-> a.user_id, action |-> a.action, target_table |-> a.target_table,
   target_id |-> a.target_id, signoff_capacity |-> a.capacity, comment |-> a.comment]

\* C5: a successful sign-off with action SIGN_OFF leaves the target's
\* current_status as it was, whatever it was; a successful REJECT sets it to
\* Rejected; either appends exactly one audit entry, for the action.
C5_SignOffKeepsStatus ==
  \A a \in FormCalls :
     LET r == log_user_signoff(DB, a, 0)
     IN  r.ok =>
           /\ r.db.inst[a.target_table][a.target_id].current_status =
                IF a.action = "REJECT" THEN "Rejected"
                ELSE inst[a.target_table][a.target_id].current_status
           /\ r.db.audit = Append(audit, SignoffEntry(a))

\* the trail holds a SIGN_OFF in the capacity on row i of table t
SignedOffBy(trail, t, i, capacity) ==
  \E k \in 1..Len(trail) :
     /\ trail[k].action = "SIGN_OFF"
     /\ trail[k].signoff_capacity = capacity
     /\ trail[k].target_table = t
     /\ trail[k].target_id = i

Workflow(tables, t, i) == bp_file_templates[tables[t][i].template_id].signoff_workflow

\* C6: for an Active instance of a Doer + Reviewer blueprint the derived status
\* is Fully Approved if and only if the trail holds a SIGN_OFF in capacity Doer
\* and a SIGN_OFF in capacity Reviewer on it; and the two sign-offs commute:
\* made in either order they end in the same status.
C6_FullyApprovedIffBoth ==
  /\ \A t \in Tables : \A i \in 1..Len(inst[t]) :
       (inst[t][i].current_status = "Active" /\ Workflow(inst, t, i) = "Doer + Reviewer") =>
         (governance_status(DB, t, i) = "Fully Approved"
            <=> SignedOffBy(audit, t, i, "Doer") /\ SignedOffBy(audit, t, i, "Reviewer"))
  /\ \A d, r \in FormCalls :
       ( /\ d.action = "SIGN_OFF" /\ d.capacity = "Doer"
         /\ r.action = "SIGN_OFF" /\ r.capacity = "Reviewer"
         /\ d.target_table = r.target_table /\ d.target_id = r.target_id
         /\ FileExists(DB, d.target_table, d.target_id)
         /\ inst[d.target_table][d.target_id].current_status = "Active"
         /\ Workflow(inst, d.target_table, d.target_id) = "Doer + Reviewer" ) =>
         LET dr == log_user_signoff(log_user_signoff(DB, d, 0).db, r, 0).db
             rd == log_user_signoff(log_user_signoff(DB, r, 0).db, d, 0).db
         IN  /\ governance_status(dr, d.target_table, d.target_id) = "Fully Approved"
             /\ governance_status(rd, d.target_table, d.target_id) = "Fully Approved"

\* an Active instance is Fully Approved, its Reviewer having signed before its
\* Doer
C6_Witness ==
  \E i \in 1..Len(inst["inst_data_input_files"]) :
     /\ inst["inst_data_input_files"][i].current_status = "Active"
     /\ governance_status(DB, "inst_data_input_files", i) = "Fully Approved"
     /\ \E k, l \in 1..Len(audit) :
          /\ k < l
          /\ SignedOffBy(<<audit[k]>>, "inst_data_input_files", i, "Reviewer")
          /\ SignedOffBy(<<audit[l]>>, "inst_data_input_files", i, "Doer")

InList(roles_list, user_role) ==
  \E k \in 1..Len(roles_list) : roles_list[k] = "all" \/ roles_list[k] = user_role

\* what a sign-off that must be, or must not be, authorized does
SignOffDecides(a, authorized) ==
  LET r == log_user_signoff(DB, a, 0)
  IN  /\ r.ok => authorized
      /\ ~authorized => ~r.ok /\ r.msg = "PermissionError" /\ r.db = DB

\* C8 (as stated): a sign-off succeeds only if the role is in the target
\* blueprint's list for the capacity (doer_roles for Doer, reviewer_roles for
\* Reviewer) or that list holds 'all'; otherwise it fails with a permission
\* error and writes nothing.
C8_OnlyListedRoles ==
  \A a \in SignoffInputs :
     FileExists(DB, a.target_table, a.target_id) =>
       LET bp == bp_file_templates[inst[a.target_table][a.target_id].template_id]
       IN  SignOffDecides(a, CASE a.capacity = "Doer" -> InList(bp.doer_roles, a.user_role)
                               [] a.capacity = "Reviewer" ->
                                    InList(bp.reviewer_roles, a.user_role)
                               [] OTHER -> FALSE)

\* C8 (amended): a sign-off succeeds only if the role is in the list the
\* capacity selects, or that list holds 'all': doer_roles for Doer,
\* reviewer_roles for Reviewer, each read as 'admin' when empty, and
\* admin, owner for any other capacity; otherwise it fails with a permission
\* error and writes nothing.
C8_OnlyAuthorizedRoles ==
  \A a \in SignoffInputs :
     FileExists(DB, a.target_table, a.target_id) =>
       LET bp == bp_file_templates[inst[a.target_table][a.target_id].template_id]
           OrAdmin(stored) == IF Len(stored) = 0 THEN <<"admin">> ELSE stored
       IN  SignOffDecides(a, CASE a.capacity = "Doer" ->
                                    InList(OrAdmin(bp.doer_roles), a.user_role)
                               [] a.capacity = "Reviewer" ->
                                    InList(OrAdmin(bp.reviewer_roles), a.user_role)
                               [] OTHER -> a.user_role \in {"admin", "owner"})

\* a sign-off has just been refused for its role
C8_Witness == last = [op |-> "signoff", ok |-> FALSE, msg |-> "PermissionError"]

\* C9: a sign-off called with an empty comment fails and writes nothing;
\* hence every SIGN_OFF or REJECT entry of the trail has a comment.
C9_CommentRequired ==
  /\ \A a \in SignoffCalls :
       a.comment = "" =>
         LET r == log_user_signoff(DB, a, 0) IN ~r.ok /\ r.db = DB
  /\ \A k \in 1..Len(audit) :
       audit[k].action \in {"SIGN_OFF", "REJECT"} => audit[k].comment # ""

\* the content's hash is on an instance of the call's blueprint and environment
IsDuplicate(a) ==
  \E t \in Tables : \E i \in 1..Len(inst[t]) :
     /\ inst[t][i].template_id = a.template_id
     /\ inst[t][i].env_id = a.env_id
     /\ inst[t][i].file_hash_sha256 = a.file_hash

\* C10 (as stated): an upload whose content hash is already on an instance of
\* the same (blueprint, environment) is rejected with the duplicate error and
\* writes nothing.
C10_DuplicateError ==
  \A a \in UploadCalls \cup ManagerUploads :
     IsDuplicate(a) =>
       LET r == upload_new_file_instance(DB, a, 0)
       IN  ~r.ok /\ r.msg = "Duplicate" /\ r.db = DB

\* C10 (amended): such an upload is rejected and writes nothing; the error is
\* the duplicate error when the caller's role is among the blueprint's doer
\* roles and the file has the blueprint's extension, the permission error
\* when the role is not, and the file-type error when the role is and the
\* extension differs.
C10_DuplicateRejected ==
  \A a \in UploadCalls \cup ManagerUploads :
     IsDuplicate(a) =>
       LET r == upload_new_file_instance(DB, a, 0)
           bp == bp_file_templates[a.template_id]
       IN  /\ ~r.ok /\ r.db = DB
           /\ r.msg = IF ~InList(bp.doer_roles, a.user_role) THEN "PermissionError"
                      ELSE IF a.file_ext # bp.expected_extension THEN "InvalidFileType"
                      ELSE "Duplicate"

\* an upload has just been refused as a duplicate, a version being Superseded
C10_Witness ==
  /\ last = [op |-> "upload", ok |-> FALSE, msg |-> "Duplicate"]
  /\ \E i \in 1..Len(inst["inst_data_input_files"]) :
       inst["inst_data_input_files"][i].current_status = "Superseded"

\* ---- C11: the audit trail is append-only.  Every step of every operation
\* (upload, sign-off, reject, clone with its replay and plan clone, milestone,
\* action item, environment and blueprint writes, prune), failed or not, leaves
\* each entry already in the trail in its place and unchanged: the trail before
\* the step is a prefix of the trail after it.
IsPrefix(s, t) == Len(s) <= Len(t) /\ \A k \in 1..Len(s) : t[k] = s[k]

\* C11: on every step, the trail before the step is a prefix of the trail after
C11_AuditAppendOnly == [][IsPrefix(audit, audit')]_vars

\* a Carbon Copy clone has replayed a sign-off behind entries of other writers
C11_Witness ==
  /\ last = [op |-> "clone", ok |-> TRUE, msg |-> "cloned"]
  /\ \E j, k \in 1..Len(audit) :
       /\ j < k
       /\ audit[j].action \in {"SIGN_OFF", "REJECT"} /\ audit[k].action = audit[j].action
       /\ audit[j].target_table = audit[k].target_table
       /\ audit[j].target_table \in Tables
       /\ audit[j].target_id # audit[k].target_id
  /\ \E k \in 1..Len(audit) : audit[k].action = "CLONE_PLAN"

\* ---- C12: a Latest Approved clone copies approved rows only.  For every
\* clone with that profile from every reachable state: each row the clone
\* adds to an instance table is the copy of a row of the source environment
\* that, when the clone began, had current_status = 'Active' and at least one
\* SIGN_OFF entry in the Reviewer or Business Owner capacity on its table and id.
Approved(db, t, i) ==
  /\ db.inst[t][i].current_status = "Active"
  /\ \E k \in 1..Len(db.audit) :
       /\ db.audit[k].target_table = t
       /\ db.audit[k].action = "SIGN_OFF"
       /\ db.audit[k].target_id = i
       /\ db.audit[k].signoff_capacity \in {"Reviewer", "Business Owner"}

\* row n of table t after the clone copies row i of the table before it
CopyOf(pre, post, t, n, i) ==
  /\ i \in 1..Len(pre.inst[t])
  /\ post.inst[t][n].template_id = pre.inst[t][i].template_id
  /\ post.inst[t][n].file_hash_sha256 = pre.inst[t][i].file_hash_sha256

\* C12: every row a Latest Approved clone adds is the copy of an Active,
\* reviewer-approved row of the source environment
C12_LatestApprovedOnly ==
  \A a \in CloneCalls :
    a.versioning_logic = "Latest Approved" =>
      LET r == clone_environment(DB, a, FALSE)
      IN  r.ok =>
            \A t \in Tables : \A n \in (Len(inst[t]) + 1)..Len(r.db.inst[t]) :
              \E i \in 1..Len(inst[t]) :
                /\ CopyOf(DB, r.db, t, n, i)
                /\ inst[t][i].env_id = a.source_env_id
                /\ Approved(DB, t, i)

\* a clone has copied a data input while another Active data input of the
\* source, never approved by a reviewer, has no copy
C12_Witness ==
  LET t == "inst_data_input_files"
  IN  /\ last = [op |-> "clone", ok |-> TRUE, msg |-> "cloned"]
      /\ \E n, i, j \in 1..Len(inst[t]) :
           /\ inst[t][n].env_id = "e2" /\ inst[t][i].env_id = "e1"
           /\ CopyOf(DB, DB, t, n, i) /\ Approved(DB, t, i)
           /\ inst[t][j].env_id = "e1" /\ inst[t][j].current_status = "Active"
           /\ ~Approved(DB, t, j)
           /\ \A m \in 1..Len(inst[t]) : inst[t][m].env_id = "e2" => ~CopyOf(DB, DB, t, m, j)

\* ---- C13: a Carbon Copy (Forensic) clone replays the audit trail.
\* the (actor, action, capacity, comment) tuples of the entries of `trail` that
\* target row i of instance table t, in the order of the trail
Targets(trail, t, i) ==
  [k \in 1..Len(trail) |->
     IF trail[k].target_table = t THEN trail[k].target_id = i ELSE FALSE]

TrailOf(trail, t, i) ==
  LET idx == SelectIdx(Len(trail), Targets(trail, t, i), 1)
  IN  [k \in 1..Len(idx) |->
         <<trail[idx[k]].user_id, trail[idx[k]].action,
           trail[idx[k]].signoff_capacity, trail[idx[k]].comment>>]

\* for every Carbon Copy clone from every reachable state: the trail of each
\* copied row is `own` entries of the clone itself, then the trail of its original
CarbonCopyTrail(own_entries) ==
  \A a \in CloneCalls :
    a.versioning_logic = "Carbon Copy (Forensic)" =>
      LET r == clone_environment(DB, a, FALSE)
          own == IF own_entries
                 THEN << <<a.user_id, "CLONE_FILE", "System", "cloned">> >> ELSE <<>>
      IN  r.ok =>
            \A t \in Tables : \A n \in (Len(inst[t]) + 1)..Len(r.db.inst[t]) :
              \E i \in 1..Len(inst[t]) :
                /\ CopyOf(DB, r.db, t, n, i)
                /\ TrailOf(r.db.audit, t, n) = own \o TrailOf(r.db.audit, t, i)

\* C13 as stated: after the clone, the entries targeting each copied row are,
\* tuple by tuple and in the same order, the entries targeting its original.
C13_ReplayIdentical == CarbonCopyTrail(FALSE)

\* C13 amended: after the clone, the entries targeting each copied row are the
\* clone's own CLONE_FILE entry (by the cloning user, capacity System) followed
\* by the entries targeting its original, tuple by tuple in the same order.
C13_ReplayAfterCloneFile == CarbonCopyTrail(TRUE)

\* a clone has copied a row whose original was created and then signed off or
\* rejected, and the copy's trail is longer than the original's
C13_Witness ==
  /\ last = [op |-> "clone", ok |-> TRUE, msg |-> "cloned"]
  /\ \E t \in Tables : \E n, i \in 1..Len(inst[t]) :
       /\ inst[t][n].env_id = "e2" /\ inst[t][i].env_id = "e1"
       /\ CopyOf(DB, DB, t, n, i)
       /\ Len(TrailOf(audit, t, i)) >= 2
       /\ Len(TrailOf(audit, t, n)) = Len(TrailOf(audit, t, i)) + 1

\* ---- C14: a clone that fails after the physical copy leaves nothing behind.
\* the physical copy of the call takes place: the source environment and its
\* folder exist, the target folder does not
PhysicalCopyDone(db, a) ==
  /\ EnvExists(db, a.source_env_id)
  /\ ~PhysicalCloneRaises(db, get_environment_by_id(db, a.source_env_id).env_name,
                          a.new_env_name)

\* the database holds a row of some table for environment env_id
HoldsRowFor(db, env_id) ==
  \/ EnvExists(db, env_id)
  \/ \E t \in Tables : \E i \in 1..Len(db.inst[t]) : db.inst[t][i].env_id = env_id
  \/ \E k \in 1..Len(db.audit) :
       IF db.audit[k].target_table = "bp_environments"
       THEN db.audit[k].target_id = env_id ELSE FALSE
  \/ \E k \in 1..Len(db.plan.milestones) : db.plan.milestones[k].env_id = env_id

SameTables(pre, post) ==
  /\ post.envs = pre.envs /\ post.inst = pre.inst /\ post.audit = pre.audit
  /\ post.lineage = pre.lineage /\ post.plan = pre.plan
  /\ post.blueprints = pre.blueprints

\* C14: whenever a clone fails after the physical copy (the environment INSERT
\* raises on an id or name in use, or a later statement of the transaction
\* raises), on return the folder it created is gone, the folders are those
\* present before the call and every table is as it was before the call: no
\* environment row, instance, lineage link, audit entry, milestone or
\* dependency of the clone is left.  When no environment had the new id or
\* name before the call, the database holds no row for the new environment,
\* and neither its folder nor its row exists.
C14_FailedCloneRestores ==
  \A a \in PlanCloneCalls \cup TakenIdCloneCalls, fault \in BOOLEAN :
    LET r == clone_environment(DB, a, fault)
        fresh == ~\E e \in envs : e.env_id = a.new_env_id \/ e.env_name = a.new_env_name
    IN  (PhysicalCopyDone(DB, a) /\ ~r.ok) =>
          /\ a.new_env_name \notin r.db.folders
          /\ r.db.folders = folders
          /\ SameTables(DB, r.db)
          /\ fresh => /\ ~HoldsRowFor(r.db, a.new_env_id)
                      /\ (a.new_env_name \in r.db.folders <=> EnvExists(r.db, a.new_env_id))

\* a clone of an environment with a plan of two linked milestones has failed
\* in its transaction: no folder and no row of the new environment is left
C14_Witness ==
  /\ last = [op |-> "clone", ok |-> FALSE, msg |-> "DatabaseError"]
  /\ Len(plan.milestones) = 2 /\ Len(plan.dependencies) = 1
  /\ "E1" \in folders /\ "E2" \notin folders
  /\ ~HoldsRowFor(DB, "e2")

\* ---- C15: a clone whose target folder exists, or whose source folder is
\* missing, overwrites nothing.
\* C15: for every clone call from every reachable state, when the folder named
\* new_env_name exists already or the source environment's folder is missing,
\* the call fails, every folder present before the call is present after it
\* and no table has changed.
C15_NoOverwrite ==
  \A a \in CloneCalls, fault \in BOOLEAN :
    LET r == clone_environment(DB, a, fault)
    IN  (/\ EnvExists(DB, a.source_env_id)
         /\ PhysicalCloneRaises(DB, get_environment_by_id(DB, a.source_env_id).env_name,
                                a.new_env_name)) =>
          /\ ~r.ok
          /\ r.db.folders = folders
          /\ SameTables(DB, r.db)

\* ---- C16: the backward schedule of a plan that forms a DAG.
\* the edges of plan_dependencies: <<task, predecessor>>
DependencyEdges(links) ==
  {<<links[k].task_id, links[k].predecessor_task_id>> : k \in 1..Len(links)}

RECURSIVE Closure(_, _)
\* the tasks reached from the set `seen` along the edges E, `seen` included
Closure(E, seen) ==
  LET next == seen \cup {e[2] : e \in {f \in E : f[1] \in seen}}
  IN  IF next = seen THEN seen ELSE Closure(E, next)

\* the tasks x depends on, directly or transitively
DependsOn(E, x) == Closure(E, {e[2] : e \in {f \in E : f[1] = x}})

Cyclic(E) == \E e \in E : e[1] \in DependsOn(E, e[1])

\* the successors of x: the tasks that name x as a predecessor
Successors(E, x) == {e[1] : e \in {f \in E : f[2] = x}}

\* C16: whenever the planning page has computed the schedule of the plan
\* stored for the environment and the plan's dependencies form a DAG, every
\* milestone has a computed due date: its stored due_date when it has no
\* successor (and a due_date is stored), else the minimum of its successors'
\* computed start dates less one day.
C16_BackwardSchedule ==
  LET E == DependencyEdges(plan.dependencies)
      r == schedule.result
  IN  (schedule.calculated /\ plan.milestones # <<>> /\ ~Cyclic(E)) =>
        \A x \in 1..Len(plan.milestones) :
          /\ x \in DOMAIN r.calc_due_date
          /\ IF Successors(E, x) = {}
             THEN plan.milestones[x].due_date # <<>> =>
                    r.calc_due_date[x] = plan.milestones[x].due_date[1]
             ELSE /\ Successors(E, x) \subseteq DOMAIN r.calc_start_date
                  /\ r.calc_due_date[x] =
                       MinOf({r.calc_start_date[y] : y \in Successors(E, x)}) - 1

\* ---- C17: a dependency that closes a cycle is rejected.
\* the links of the plan once the call's links are added to it
WithLinksOf(a) ==
  DependencyEdges(plan.dependencies \o
                  DependencyRows(Len(plan.milestones) + 1, a.predecessor_ids))

\* C17: for every call of create_milestone from every reachable state, when the
\* links the call adds would make a task depend on itself, directly or
\* transitively, the call is rejected with a cycle error and the milestones
\* and the dependencies are as they were.
C17_CycleRejected ==
  \A a \in PlanCalls :
    LET r == create_milestone(DB, a, FALSE)
    IN  Cyclic(WithLinksOf(a)) /\ ~Cyclic(DependencyEdges(plan.dependencies)) =>
          /\ ~r.ok
          /\ r.msg = "CycleError"
          /\ r.db.plan = plan

\* ---- C18: the engine terminates, and reports a cycle.
\* the links the engine is given: the successor each milestone dict names, and
\* the links of plan_dependencies when the list was read from the database
GivenEdges ==
  LET ms == schedule.milestones_from_db
  IN  {<<ms[k].successor_milestone_id, ms[k].milestone_id>> :
         k \in {j \in 1..Len(ms) : ms[j].successor_milestone_id # 0}}
      \cup (IF plan.milestones # <<>> THEN DependencyEdges(plan.dependencies) ELSE {})

\* no task was taken from the queue more than once
VisitsBounded ==
  \A x \in DOMAIN schedule.result.visits : schedule.result.visits[x] <= 1

\* C18: whenever the planning page has run the engine, the run has ended with
\* every task visited at most once, and when the links it was given hold a
\* cycle the page shows the engine's error instead of a schedule.
C18_CycleReported ==
  schedule.calculated =>
    /\ VisitsBounded
    /\ Cyclic(GivenEdges) => schedule.error # "none"

\* ---- C19: the rows a clone inserts.
\* the id map of the clone a on the database as it stands
IdMapOf(a) ==
  id_map_int_to_int(DB, a.source_env_id, a.new_env_id, a.user_id, a.folders_to_clone,
                    a.versioning_logic)

\* C19: for every clone from every reachable state that succeeds: the rows
\* added to an instance table are exactly the values of the table's id map;
\* the map is injective and every new id differs from every id the table held
\* before; every added row copies the row it is mapped from and has env_id =
\* the new environment, created_by = the cloning user and current_status =
\* 'Active'.
C19_FreshActiveCopies ==
  \A a \in CloneCalls :
    LET r == clone_environment(DB, a, FALSE)
        m == IdMapOf(a)
    IN  r.ok =>
          \A t \in Tables :
            /\ {m[t][i] : i \in DOMAIN m[t]} = (Len(inst[t]) + 1)..Len(r.db.inst[t])
            /\ DOMAIN m[t] \subseteq 1..Len(inst[t])
            /\ \A i, j \in DOMAIN m[t] : i # j => m[t][i] # m[t][j]
            /\ \A i \in DOMAIN m[t] :
                 /\ m[t][i] \notin 1..Len(inst[t])
                 /\ CopyOf(DB, r.db, t, m[t][i], i)
                 /\ r.db.inst[t][m[t][i]].env_id = a.new_env_id
                 /\ r.db.inst[t][m[t][i]].created_by = a.user_id
                 /\ r.db.inst[t][m[t][i]].current_status = "Active"

\* a clone has copied a Superseded or Rejected row: the copy is Active, in the
\* new environment and created by the cloning user
C19_Witness ==
  /\ last = [op |-> "clone", ok |-> TRUE, msg |-> "cloned"]
  /\ \E t \in Tables : \E n, i \in 1..Len(inst[t]) :
       /\ i < n /\ CopyOf(DB, DB, t, n, i)
       /\ inst[t][i].env_id = "e1" /\ inst[t][i].current_status \in {"Superseded", "Rejected"}
       /\ inst[t][i].created_by = "ann"
       /\ inst[t][n] = [inst[t][i] EXCEPT !.env_id = "e2", !.created_by = "root",
                                          !.current_status = "Active"]

\* ---- C20: the lineage links a clone inserts.
\* the links the clone a should insert: one per link of the table whose parent
\* is a key of the id map of its parent_table and whose child is a key of the
\* id map of its child_table, renamed through those two maps
ExpectedLinks(a) ==
  LET m == IdMapOf(a)
  IN  {[parent_table |-> lineage[k].parent_table,
        parent_id |-> m[lineage[k].parent_table][lineage[k].parent_id],
        child_table |-> lineage[k].child_table,
        child_id |-> m[lineage[k].child_table][lineage[k].child_id]] :
         k \in {j \in 1..Len(lineage) :
                  /\ lineage[j].parent_id \in DOMAIN m[lineage[j].parent_table]
                  /\ lineage[j].child_id \in DOMAIN m[lineage[j].child_table]}}

\* the links the clone a inserts
InsertedLinks(a) ==
  LET post == clone_environment(DB, a, FALSE).db.lineage
  IN  {post[k] : k \in (Len(lineage) + 1)..Len(post)}

\* the row (table, id) exists in db and belongs to env_id
InEnvironment(db, table, id, env_id) ==
  /\ id \in 1..Len(db.inst[table])
  /\ db.inst[table][id].env_id = env_id

EdgesOf(p) ==
  {<<p.dependencies[k].task_id, p.dependencies[k].predecessor_task_id>> :
     k \in 1..Len(p.dependencies)}

\* the milestones of a plan that belong to env_id
MilestonesOf(p, env_id) == {i \in 1..Len(p.milestones) : p.milestones[i].env_id = env_id}

\* C21: for every clone with a plan source S from every reachable state that
\* succeeds: the milestones and edges of the store before the clone are
\* unchanged; the id map is a bijection from the milestones of S to the
\* milestones added, each added one having the title, duration, due date,
\* owner and status of its original and belonging to the new environment;
\* the edges added are exactly the images of the edges whose two tasks both
\* belong to S; and no edge joins a milestone of the new environment to a
\* milestone of another.
C21_PlanCopiedThroughIdMap ==
  \A a \in StoreCloneCalls :
    LET r == clone_environment(DB, a, FALSE)
        post == r.db.plan
        S == MilestonesOf(plan, a.clone_plan_from_env_id)
        m == plan_id_map(DB, a.clone_plan_from_env_id, a.new_env_id, a.user_id)
    IN  r.ok =>
          /\ SubSeq(post.milestones, 1, Len(plan.milestones)) = plan.milestones
          /\ SubSeq(post.dependencies, 1, Len(plan.dependencies)) = plan.dependencies
          /\ DOMAIN m = S
          /\ {m[i] : i \in S} = (Len(plan.milestones) + 1)..Len(post.milestones)
          /\ \A i, j \in S : i # j => m[i] # m[j]
          /\ \A i \in S :
               /\ post.milestones[m[i]].env_id = a.new_env_id
               /\ post.milestones[m[i]].title = plan.milestones[i].title
               /\ post.milestones[m[i]].duration_days = plan.milestones[i].duration_days
               /\ post.milestones[m[i]].due_date = plan.milestones[i].due_date
               /\ post.milestones[m[i]].owner_user_id = plan.milestones[i].owner_user_id
               /\ post.milestones[m[i]].status = plan.milestones[i].status
          /\ Len(post.dependencies) - Len(plan.dependencies)
               = Cardinality({e \in EdgesOf(plan) : e[1] \in S /\ e[2] \in S})
          /\ EdgesOf(post) \ EdgesOf(plan)
               = {<<m[e[1]], m[e[2]]>> : e \in {x \in EdgesOf(plan) : x[1] \in S /\ x[2] \in S}}
          /\ \A e \in EdgesOf(post) :
               (e[1] \in MilestonesOf(post, a.new_env_id))
                 <=> (e[2] \in MilestonesOf(post, a.new_env_id))

\* a clone has copied a plan of two milestones joined by an edge, and left
\* out the edge that joins a milestone of another environment to the plan
C21_Witness ==
  /\ last = [op |-> "clone", ok |-> TRUE, msg |-> "cloned"]
  /\ Len(plan.milestones) = 5
  /\ MilestonesOf(plan, "e1") = {1, 2}
  /\ MilestonesOf(plan, "e3") = {3}
  /\ MilestonesOf(plan, "e2") = {4, 5}
  /\ EdgesOf(plan) = {<<2, 1>>, <<3, 1>>, <<5, 4>>}
  /\ plan.milestones[1].status = "Complete" /\ plan.milestones[4].status = "Complete"
  /\ plan.milestones[2].status = "Pending" /\ plan.milestones[5].status = "Pending"

\* ---- C22: what each profile clones.
\* the folder of the table is among the folders to clone
FolderSelected(a, t) ==
  \E j \in 1..Len(a.folders_to_clone) : STAGE_TO_TABLE_MAP[a.folders_to_clone[j]] = t

\* the rows of table t the profile of the clone a names
ProfileRows(a, t) ==
  {i \in 1..Len(inst[t]) :
     /\ inst[t][i].env_id = a.source_env_id
     /\ \/ a.versioning_logic = "Carbon Copy (Forensic)"
        \/ /\ a.versioning_logic = "Full History (No Superseded)"
           /\ inst[t][i].current_status \in {"Active", "Rejected"}}

C23_LatestApprovedFullySignedOff ==
  \A a \in {c \in CloneCalls : c.versioning_logic = "Latest Approved"} :
    LET r == clone_environment(DB, a, FALSE)
        m == IdMapOf(a)
    IN  r.ok =>
          \A t \in Tables : \A i \in DOMAIN m[t] :
            /\ inst[t][i].env_id = a.source_env_id
            /\ inst[t][i].current_status = "Active"
            /\ HasSignoff(DB, t, i, "Doer")
            /\ governance_status(DB, t, i) \in {"Fully Approved", "Approved (Doer Only)"}

\* ---- C24: a new version after a rejection.
\* row i is the latest version of its blueprint in its environment
LatestVersion(db, t, i) ==
  \A j \in 1..Len(db.inst[t]) :
    (/\ db.inst[t][j].template_id = db.inst[t][i].template_id
     /\ db.inst[t][j].env_id = db.inst[t][i].env_id) => j <= i

\* C24: for every upload from every reachable state that succeeds: when the
\* latest version of the uploaded blueprint in the environment is Rejected,
\* the upload that inserts the new version leaves that version Superseded.
C24_RejectedVersionSuperseded ==
  \A a \in GoodUploads :
    LET r == upload_new_file_instance(DB, a, 0)
        t == STAGE_TO_TABLE_MAP[get_file_blueprint_by_id(a.template_id).stage]
    IN  r.ok =>
          \A i \in 1..Len(inst[t]) :
            (/\ inst[t][i].template_id = a.template_id
             /\ inst[t][i].env_id = a.env_id
             /\ LatestVersion(DB, t, i)
             /\ inst[t][i].current_status = "Rejected")
              => r.db.inst[t][i].current_status = "Superseded"

\* ---- C25: the physical asset of a failed call.
\* the folders on disk that no row of bp_environments names
OrphanFolders(db) == {f \in db.folders : \A e \in db.envs : e.env_name # f}

\* C25: for every call of create_new_environment from every reachable state,
\* whether or not its transaction raises: when the call fails, it leaves on
\* disk no folder without an environment row that was not there before.
C25_FailedCreateLeavesNoFolder ==
  \A a \in EnvironmentCalls, fault \in BOOLEAN :
    LET r == create_new_environment(DB, a, fault)
    IN  ~r.ok => OrphanFolders(r.db) \subseteq OrphanFolders(DB)

\* ---- C26: the stored due dates.
\* C26: in every reachable state of the planning store, a milestone that is
\* the predecessor_task_id of some dependency edge has due_date NULL.
C26_DueDateOnlyWithoutDependent ==
  \A k \in 1..Len(plan.dependencies) :
    plan.milestones[plan.dependencies[k].predecessor_task_id].due_date = <<>>

\* ---- C27: the start date of a task.
\* the dict of milestone x in the list handed to the engine
GivenTask(x) ==
  LET ms == schedule.milestones_from_db
  IN  ms[CHOOSE k \in 1..Len(ms) : ms[k].milestone_id = x]

\* the stored duration when it is an integer >= 1, and 1 otherwise
EffectiveDuration(x) ==
  LET d == GivenTask(x).duration_days
  IN  IF d # <<>> /\ d[1] >= 1 THEN d[1] ELSE 1

\* C27: whenever the planning page has run the engine, every task that has a
\* computed schedule has start = due - (d - 1) days, d being its stored
\* duration_days when that is an integer >= 1 and 1 when it is NULL, zero or
\* negative; hence start <= due.
C27_StartFromDuration ==
  LET r == schedule.result
  IN  schedule.calculated =>
        /\ DOMAIN r.calc_start_date = DOMAIN r.calc_due_date
        /\ \A x \in DOMAIN r.calc_start_date :
             /\ r.calc_start_date[x] = r.calc_due_date[x] - (EffectiveDuration(x) - 1)
             /\ r.calc_start_date[x] <= r.calc_due_date[x]

\* the engine has scheduled a task with no duration, one with a negative
\* duration and one of three days
C27_Witness ==
  LET r == schedule.result
  IN  /\ schedule.calculated
      /\ DOMAIN r.calc_start_date = {1, 2, 3}
      /\ GivenTask(1).duration_days = <<>> /\ r.calc_start_date[1] = r.calc_due_date[1]
      /\ GivenTask(2).duration_days = <<-1>> /\ r.calc_start_date[2] = r.calc_due_date[2]
      /\ GivenTask(3).duration_days = <<3>> /\ r.calc_start_date[3] = r.calc_due_date[3] - 2

\* ---- C28: the schedule is a function of the plan alone.
\* the day after each day the page is opened on
LaterDays == {now + 1 : now \in Nows}

\* C28: whenever the planning page has run the engine, a run on the same
\* milestones on a later day returns the same start dates, due dates and KPIs,
\* and the due date of a task with no successor in the list is its stored
\* due_date.
C28_ScheduleDeterministic ==
  LET r == schedule.result
      ms == schedule.milestones_from_db
      ids == {ms[k].milestone_id : k \in 1..Len(ms)}
  IN  schedule.calculated =>
        /\ \A day \in LaterDays : calculate_project_plan(ms, day) = r
        /\ \A x \in DOMAIN r.calc_due_date :
             GivenTask(x).successor_milestone_id \notin ids =>
               /\ GivenTask(x).due_date # <<>>
               /\ r.calc_due_date[x] = GivenTask(x).due_date[1]

\* ---- C29: the dependency graph stays acyclic.
\* C29: in every state reached from the empty plan by calls of
\* create_milestone and clones of plans, no milestone depends on itself,
\* directly or transitively.
C29_PlanAcyclic == ~Cyclic(EdgesOf(plan))

\* ---- C30: Superseded and Rejected are final.
\* C30: in every step, a row whose current_status is Superseded or Rejected
\* is not Active after the step.
C30_NeverActiveAgain ==
  [][\A t \in Tables : \A i \in 1..Len(inst[t]) :
       inst[t][i].current_status \in {"Superseded", "Rejected"} =>
         inst'[t][i].current_status # "Active"]_vars

====
